---- MODULE Spec2Model ----
(***************************************************************************)
(* DOM tree diff engine of the nanobrowser extension                       *)
(* (chrome-extension/src/background/dom/history/dom-diff.ts).              *)
(*                                                                         *)
(* compareDOMTrees is modelled as a state machine over a pair of trees;    *)
(* calculateSimilarityScore is computed in IEEE-754 double arithmetic      *)
(* (the `number` type of the source), detectElementChanges as the ordered  *)
(* list of descriptors the source pushes.                                  *)
(***************************************************************************)
EXTENDS Integers, Sequences, FiniteSets, TLC

\* ------------------------------------------------------------------------
\* IEEE-754 double arithmetic on the values the scorer produces.
\* A double in [0, 16) is a fixed-point bit string of W bits, IntBits of
\* them before the binary point; every operation rounds its exact result to
\* SigBits significant bits, to nearest, ties to even.
\* ------------------------------------------------------------------------
W == 80
IntBits == 4
SigBits == 53

RECURSIVE IntToBits(_, _)
IntToBits(n, k) == IF k = 0 THEN <<>> ELSE Append(IntToBits(n \div 2, k - 1), n % 2)

RECURSIVE BitsToInt(_, _)
BitsToInt(b, k) == IF k = 0 THEN 0 ELSE 2 * BitsToInt(b, k - 1) + b[k]

ZeroBits == [i \in 1..W |-> 0]
Zeros(k) == SubSeq(ZeroBits, 1, k)

Min(S) == CHOOSE i \in S : \A j \in S : i <= j
Max(S) == CHOOSE i \in S : \A j \in S : i >= j

\* long division by the small integer d of bits lo..hi of b, entered with
\* remainder r: <<quotient bits lo..hi, remainder>>
RECURSIVE LongDiv(_, _, _, _, _)
LongDivJoin(b, d, mid, hi, left) ==
  LET right == LongDiv(b, d, mid + 1, hi, left[2])
  IN <<left[1] \o right[1], right[2]>>
LongDiv(b, d, lo, hi, r) ==
  IF lo = hi
    THEN <<<<(2 * r + b[lo]) \div d>>, (2 * r + b[lo]) % d>>
    ELSE LongDivJoin(b, d, (lo + hi) \div 2, hi, LongDiv(b, d, lo, (lo + hi) \div 2, r))

LeadingOne(b) == LET S == {i \in 1..W : b[i] = 1} IN IF S = {} THEN 0 ELSE Min(S)

\* add one unit in the last place
Increment(b, last) ==
  LET z == Max({j \in 1..last : b[j] = 0})
  IN [i \in 1..W |-> IF i = z THEN 1 ELSE IF i > z THEN 0 ELSE b[i]]

RoundNearestEven(b, sticky) ==
  LET p == LeadingOne(b)
      last == p + SigBits - 1
  IN IF p = 0 \/ last >= W THEN b
     ELSE LET rest == sticky \/ \E i \in (last + 2)..W : b[i] = 1
          IN IF b[last + 1] = 1 /\ (rest \/ b[last] = 1)
               THEN Increment(b, last)
               ELSE SubSeq(b, 1, last) \o Zeros(W - last)

IntAsDouble(n) == IntToBits(n, IntBits) \o Zeros(W - IntBits)

\* x / d for a double x and a small integer d
DoubleDiv(x, d) ==
  LET qr == LongDiv(x, d, 1, W, 0)
  IN RoundNearestEven(qr[1], qr[2] # 0)

\* n / d for integers n, d
IntDiv(n, d) ==
  LET fr == LongDiv(ZeroBits, d, IntBits + 1, W, n % d)
  IN RoundNearestEven(IntToBits(n \div d, IntBits) \o fr[1], fr[2] # 0)

\* n + x for an integer n and a double x
DoubleAddInt(n, x) ==
  RoundNearestEven(IntToBits(BitsToInt(x, IntBits) + n, IntBits) \o SubSeq(x, IntBits + 1, W), FALSE)

DoubleTimes2(x) == SubSeq(x, 2, W) \o <<0>>

DoubleGT(a, b) ==
  LET D == {i \in 1..W : a[i] # b[i]} IN D # {} /\ a[Min(D)] = 1

DoubleZero == IntAsDouble(0)
DoubleOne == IntAsDouble(1)

\* ------------------------------------------------------------------------
\* Node model.  A string value of an attribute is a sequence of characters;
\* a tree is a sequence of element nodes, node 1 the root; a child entry is
\* the index of an element node, or TextChild for a non-element leaf.
\* ------------------------------------------------------------------------
TextChild == 0

NoCoordinates == [has |-> FALSE, x |-> 0, y |-> 0]
Coordinates(cx, cy) == [has |-> TRUE, x |-> cx, y |-> cy]

DOMElementNode(tag, path, attrs, vis, inter, vc) ==
  [tagName |-> tag, xpath |-> path, attributes |-> attrs, children |-> <<>>,
   isVisible |-> vis, isInteractive |-> inter, viewportCoordinates |-> vc]

\* attributes: insertion-ordered list of <<key, value>> with unique keys
HasKey(attrs, key) == \E i \in 1..Len(attrs) : attrs[i][1] = key
Get(attrs, key) == attrs[CHOOSE i \in 1..Len(attrs) : attrs[i][1] = key][2]
\* JavaScript truthiness of attrs[key]: present and not the empty string
Truthy(attrs, key) == HasKey(attrs, key) /\ Get(attrs, key) # <<>>

ElementChildren(node) == SelectSeq(node.children, LAMBDA ch : ch # TextChild)

IsSpace(ch) == ch \in {" ", "\t", "\n"}

\* new Set(s.split(/\s+/)): the maximal runs of non-space characters, and
\* the empty token when s is empty or starts or ends with white space
ClassSet(s) ==
  LET n == Len(s)
      starts == {i \in 1..n : ~IsSpace(s[i]) /\ (i = 1 \/ IsSpace(s[i - 1]))}
      EndOf(i) == Min({j \in i..n : j = n \/ IsSpace(s[j + 1])})
  IN {SubSeq(s, i, EndOf(i)) : i \in starts}
       \cup (IF n = 0 \/ IsSpace(s[1]) \/ IsSpace(s[n]) THEN {<<>>} ELSE {})

\* ------------------------------------------------------------------------
\* calculateSimilarityScore
\* ------------------------------------------------------------------------
TagWeight == 3
XPathWeight == 2
IdWeight == 4
ClassWeight == 2

\* totalWeight without the `totalWeight += 2` of line 208
totalWeightWithoutClass == TagWeight + XPathWeight + IdWeight

totalWeight == TagWeight + XPathWeight + IdWeight + ClassWeight

\* SignalScore without the id comparison of lines 185-187
SignalScoreWithoutId(elem1, elem2) ==
  (IF elem1.tagName = elem2.tagName THEN TagWeight ELSE 0)
  + (IF elem1.xpath = elem2.xpath THEN XPathWeight ELSE 0)

\* the part of the score accumulated before the class signal (an integer)
SignalScore(elem1, elem2) ==
  (IF elem1.tagName = elem2.tagName THEN TagWeight ELSE 0)
  + (IF elem1.xpath = elem2.xpath THEN XPathWeight ELSE 0)
  + (IF Truthy(elem1.attributes, "id") /\ Truthy(elem2.attributes, "id")
        /\ Get(elem1.attributes, "id") = Get(elem2.attributes, "id")
       THEN IdWeight ELSE 0)

\* lines 203-211: score += 2 * (commonClasses / maxClasses); return score / totalWeight
WithClassSignal(score, commonClasses, maxClasses) ==
  DoubleDiv(DoubleAddInt(score, DoubleTimes2(IntDiv(commonClasses, maxClasses))), totalWeight)

\* line 211 when the class signal was skipped
WithoutClassSignal(score) == DoubleDiv(IntAsDouble(score), totalWeight)

\* the two computations, tabulated once over the values the accumulated
\* weight and the class counts can take (@@ makes the table an explicit one)
MaxClassCount == 20
MaxSignalScore == TagWeight + XPathWeight + IdWeight
WithClassSignalTable ==
  [t \in {u \in (0..MaxSignalScore) \X (0..MaxClassCount) \X (1..MaxClassCount) :
            u[2] <= u[3]} |->
     WithClassSignal(t[1], t[2], t[3])] @@ <<>>
WithoutClassSignalTable == [t \in 0..MaxSignalScore |-> WithoutClassSignal(t)] @@ <<>>

\* calculateSimilarityScore dividing by class1Set.size instead of the larger size
calculateSimilarityScoreByFirstSize(elem1, elem2) ==
  LET score == SignalScore(elem1, elem2)
  IN IF Truthy(elem1.attributes, "class") /\ Truthy(elem2.attributes, "class")
       THEN LET class1Set == ClassSet(Get(elem1.attributes, "class"))
                class2Set == ClassSet(Get(elem2.attributes, "class"))
                commonClasses == Cardinality(class1Set \cap class2Set)
            IN WithClassSignalTable[<<score, commonClasses, Cardinality(class1Set)>>]
       ELSE WithoutClassSignalTable[score]

calculateSimilarityScore(elem1, elem2) ==
  LET score == SignalScore(elem1, elem2)
  IN IF Truthy(elem1.attributes, "class") /\ Truthy(elem2.attributes, "class")
       THEN LET class1Set == ClassSet(Get(elem1.attributes, "class"))
                class2Set == ClassSet(Get(elem2.attributes, "class"))
                commonClasses == Cardinality(class1Set \cap class2Set)
                maxClasses == IF Cardinality(class1Set) >= Cardinality(class2Set)
                                THEN Cardinality(class1Set) ELSE Cardinality(class2Set)
            IN IF maxClasses > 0
                 THEN WithClassSignalTable[<<score, commonClasses, maxClasses>>]
                 ELSE WithoutClassSignalTable[score]
       ELSE WithoutClassSignalTable[score]

\* the literal 0.7 of compareChildNodes
MatchThreshold == IntDiv(7, 10)

\* ------------------------------------------------------------------------
\* detectElementChanges: the descriptors in the order the source pushes them
\* ------------------------------------------------------------------------
\* attribute maps are plain objects, so `key in attrs` and attrs[key] also
\* see the properties every object inherits from Object.prototype
ObjectPrototypeKeys ==
  {"constructor", "hasOwnProperty", "isPrototypeOf", "propertyIsEnumerable",
   "toLocaleString", "toString", "valueOf", "__proto__"}

\* `key in attrs`
In(attrs, key) == HasKey(attrs, key) \/ key \in ObjectPrototypeKeys

\* attrs[key] for a key that is `in` attrs: the own string, or else the
\* inherited member, which is no string and so differs from every string
Inherited(key) == <<"inherited", key>>
Lookup(attrs, key) == IF HasKey(attrs, key) THEN Get(attrs, key) ELSE Inherited(key)

\* the second attribute loop without its test: every new attribute is reported
AddedAttributesAll(oldAttrs, newAttrs) ==
  [i \in 1..Len(newAttrs) |-> <<"attribute added", newAttrs[i][1], newAttrs[i][2]>>]

\* lines 230-236: one pass over the old attributes, in their order
RemovedOrChanged(oldAttrs, newAttrs) ==
  LET Differs(e) == ~In(newAttrs, e[1]) \/ Lookup(newAttrs, e[1]) # e[2]
      Describe(e) == IF ~In(newAttrs, e[1])
                       THEN <<"attribute removed", e[1], e[2]>>
                       ELSE <<"attribute changed", e[1], e[2], Lookup(newAttrs, e[1])>>
      kept == SelectSeq(oldAttrs, Differs)
  IN [i \in 1..Len(kept) |-> Describe(kept[i])]

\* lines 239-243: one pass over the new attributes, in their order
AddedAttributes(oldAttrs, newAttrs) ==
  LET kept == SelectSeq(newAttrs, LAMBDA e : ~In(oldAttrs, e[1]))
  IN [i \in 1..Len(kept) |-> <<"attribute added", kept[i][1], kept[i][2]>>]

\* detectElementChanges with the two attribute loops in the other order
detectElementChangesAddedFirst(oldElem, newElem) ==
  (IF oldElem.tagName # newElem.tagName
     THEN <<<<"tag", oldElem.tagName, newElem.tagName>>>> ELSE <<>>)
  \o AddedAttributes(oldElem.attributes, newElem.attributes)
  \o RemovedOrChanged(oldElem.attributes, newElem.attributes)
  \o (IF oldElem.isVisible # newElem.isVisible
        THEN <<<<"visibility", oldElem.isVisible, newElem.isVisible>>>> ELSE <<>>)
  \o (IF oldElem.isInteractive # newElem.isInteractive
        THEN <<<<"interactivity", oldElem.isInteractive, newElem.isInteractive>>>> ELSE <<>>)
  \o (IF oldElem.viewportCoordinates.has /\ newElem.viewportCoordinates.has
         /\ (oldElem.viewportCoordinates.x # newElem.viewportCoordinates.x
             \/ oldElem.viewportCoordinates.y # newElem.viewportCoordinates.y)
        THEN <<<<"position", oldElem.viewportCoordinates, newElem.viewportCoordinates>>>>
        ELSE <<>>)

\* detectElementChanges with the position test looking at center.x only
detectElementChangesXOnly(oldElem, newElem) ==
  (IF oldElem.tagName # newElem.tagName
     THEN <<<<"tag", oldElem.tagName, newElem.tagName>>>> ELSE <<>>)
  \o RemovedOrChanged(oldElem.attributes, newElem.attributes)
  \o AddedAttributes(oldElem.attributes, newElem.attributes)
  \o (IF oldElem.isVisible # newElem.isVisible
        THEN <<<<"visibility", oldElem.isVisible, newElem.isVisible>>>> ELSE <<>>)
  \o (IF oldElem.isInteractive # newElem.isInteractive
        THEN <<<<"interactivity", oldElem.isInteractive, newElem.isInteractive>>>> ELSE <<>>)
  \o (IF oldElem.viewportCoordinates.has /\ newElem.viewportCoordinates.has
         /\ oldElem.viewportCoordinates.x # newElem.viewportCoordinates.x
        THEN <<<<"position", oldElem.viewportCoordinates, newElem.viewportCoordinates>>>>
        ELSE <<>>)

detectElementChanges(oldElem, newElem) ==
  (IF oldElem.tagName # newElem.tagName
     THEN <<<<"tag", oldElem.tagName, newElem.tagName>>>> ELSE <<>>)
  \o RemovedOrChanged(oldElem.attributes, newElem.attributes)
  \o AddedAttributes(oldElem.attributes, newElem.attributes)
  \o (IF oldElem.isVisible # newElem.isVisible
        THEN <<<<"visibility", oldElem.isVisible, newElem.isVisible>>>> ELSE <<>>)
  \o (IF oldElem.isInteractive # newElem.isInteractive
        THEN <<<<"interactivity", oldElem.isInteractive, newElem.isInteractive>>>> ELSE <<>>)
  \o (IF oldElem.viewportCoordinates.has /\ newElem.viewportCoordinates.has
         /\ (oldElem.viewportCoordinates.x # newElem.viewportCoordinates.x
             \/ oldElem.viewportCoordinates.y # newElem.viewportCoordinates.y)
        THEN <<<<"position", oldElem.viewportCoordinates, newElem.viewportCoordinates>>>>
        ELSE <<>>)

\* compareHistoryElementAndDomElement of history/service.ts, by its contract:
\* the pair is `identical` when no facet of the two nodes differs
compareHistoryElementAndDomElement(oldNode, newNode) ==
  detectElementChanges(oldNode, newNode) = <<>>

\* ------------------------------------------------------------------------
\* Input trees
\* ------------------------------------------------------------------------
MaxNodes == 3

Str_x == <<"x">>
Str_c == <<"c">>
Str_c_d == <<"c", " ", "d">>

HtmlRoot == DOMElementNode("html", "/html", <<>>, TRUE, FALSE, NoCoordinates)

\* <div id="x" class="c">, <div id="x" class="c d">, <span class="c">
DivXC == DOMElementNode("div", "/html/div", <<<<"id", Str_x>>, <<"class", Str_c>>>>,
                        TRUE, FALSE, NoCoordinates)
DivXCD == DOMElementNode("div", "/html/div", <<<<"id", Str_x>>, <<"class", Str_c_d>>>>,
                         TRUE, FALSE, NoCoordinates)
SpanC == DOMElementNode("span", "/html/span", <<<<"class", Str_c>>>>,
                        TRUE, FALSE, NoCoordinates)

RootLabels == {HtmlRoot}
ChildLabels == {DivXC, DivXCD, SpanC}

\* node i > 1 hangs under an earlier node; children keep index order
ParentVectors(n) ==
  {p \in [1..n -> 0..(n - 1)] : p[1] = 0 /\ \A i \in 2..n : p[i] \in 1..(i - 1)}

BuildTree(p, labels) ==
  LET n == Len(labels)
  IN [i \in 1..n |->
        [labels[i] EXCEPT !.children = SelectSeq([j \in 1..n |-> j], LAMBDA j : p[j] = i)]]

Labellings(n) ==
  {l \in [1..n -> RootLabels \cup ChildLabels] :
     l[1] \in RootLabels /\ \A i \in 2..n : l[i] \in ChildLabels}

GenericTrees ==
  UNION {{BuildTree(p, l) : p \in ParentVectors(n), l \in Labellings(n)} : n \in 1..MaxNodes}

\* ------------------------------------------------------------------------
\* The trees of test-dom-diff.ts and of the documented scenarios
\* ------------------------------------------------------------------------
Str_container == <<"c", "o", "n", "t", "a", "i", "n", "e", "r">>
Str_container_modified == <<"c", "o", "n", "t", "a", "i", "n", "e", "r", " ", "m", "o", "d", "i", "f", "i", "e", "d">>
Str_main_body == <<"m", "a", "i", "n", "-", "b", "o", "d", "y">>
Str_item == <<"i", "t", "e", "m">>
Str_item_1 == <<"i", "t", "e", "m", "-", "1">>
Str_item_2 == <<"i", "t", "e", "m", "-", "2">>
Str_item_3 == <<"i", "t", "e", "m", "-", "3">>
Str_true == <<"t", "r", "u", "e">>
Str_color_red == <<"c", "o", "l", "o", "r", ":", " ", "r", "e", "d", ";">>
Str_new_element == <<"n", "e", "w", "-", "e", "l", "e", "m", "e", "n", "t">>
Str_highlight == <<"h", "i", "g", "h", "l", "i", "g", "h", "t">>
Str_a == <<"a">>
Str_b == <<"b">>

WithChildren(node, ch) == [node EXCEPT !.children = ch]

TestItem(idValue, path, extra) ==
  DOMElementNode("div", path, <<<<"id", idValue>>, <<"class", Str_item>>>> \o extra,
                 TRUE, FALSE, NoCoordinates)

NewElement ==
  DOMElementNode("span", "/html/body/div/span",
                 <<<<"id", Str_new_element>>, <<"class", Str_highlight>>>>,
                 TRUE, FALSE, NoCoordinates)

\* createTestDOMTree(isModified): html > body > div#container > three items,
\* and in the modified version a changed item 2 and an appended span
createTestDOMTree(isModified) ==
  <<WithChildren(DOMElementNode("html", "/html", <<>>, TRUE, FALSE, NoCoordinates), <<2>>),
    WithChildren(DOMElementNode("body", "/html/body", <<<<"class", Str_main_body>>>>,
                                TRUE, FALSE, NoCoordinates), <<3>>),
    WithChildren(DOMElementNode("div", "/html/body/div",
                   <<<<"id", Str_container>>,
                     <<"class", IF isModified THEN Str_container_modified ELSE Str_container>>>>,
                   TRUE, FALSE, NoCoordinates),
                 IF isModified THEN <<4, 5, 6, 7>> ELSE <<4, 5, 6>>),
    TestItem(Str_item_1, "/html/body/div/div[1]", <<>>),
    TestItem(Str_item_2, "/html/body/div/div[2]",
             IF isModified THEN <<<<"data-modified", Str_true>>, <<"style", Str_color_red>>>>
                           ELSE <<>>),
    TestItem(Str_item_3, "/html/body/div/div[3]", <<>>)>>
  \o (IF isModified THEN <<NewElement>> ELSE <<>>)

\* the documented end-to-end scenario: the original tree, except that item 2
\* gains data-modified="true" and span#new-element is appended
ScenarioNewTree ==
  [createTestDOMTree(FALSE) EXCEPT
     ![3].children = <<4, 5, 6, 7>>,
     ![5].attributes = Append(@, <<"data-modified", Str_true>>)]
  \o <<NewElement>>

\* <div id="a"> and <span id="b">, without children
DivA(path) == DOMElementNode("div", path, <<<<"id", Str_a>>>>, TRUE, FALSE, NoCoordinates)
SpanB(path) == DOMElementNode("span", path, <<<<"id", Str_b>>>>, TRUE, FALSE, NoCoordinates)

\* <div id="x">, interactive, with or without its place in the viewport
DivXAt(vc) == DOMElementNode("div", "/html/div", <<<<"id", Str_x>>>>, TRUE, TRUE, vc)

Single(node) == <<node>>
Under(root, node) == <<WithChildren(root, <<2>>), node>>

\* class strings of ClassTokens single-letter tokens, the first k of them common
Letters == <<"a", "b", "c", "d", "e", "f", "g", "h", "i", "j",
             "k", "l", "m", "n", "o", "p", "q", "r", "s", "t">>
Others == <<"0", "1", "2", "3", "4", "5", "6", "7", "8", "9",
            "u", "v", "w", "y", "z", "A", "B", "C", "D", "E">>
ClassTokens == Len(Letters)
Join(tokens) ==
  [i \in 1..(2 * Len(tokens) - 1) |-> IF i % 2 = 1 THEN tokens[(i + 1) \div 2] ELSE " "]
SharedClass(k) == Join(SubSeq(Letters, 1, k) \o SubSeq(Others, 1, ClassTokens - k))

\* <div id="x" class=...> with k of the 20 class tokens shared with Wide(20, ...)
Wide(k, tag, path) ==
  DOMElementNode(tag, path, <<<<"id", Str_x>>, <<"class", SharedClass(k)>>>>,
                 TRUE, FALSE, NoCoordinates)

\* shared tokens for which tag + id + class, or xpath + id + class, weigh
\* just below, exactly and just above 7.7 of 11
SharedByTagId == {6, 7, 8}
SharedByPathId == {16, 17, 18}

ScenarioPairs ==
  {<<createTestDOMTree(FALSE), createTestDOMTree(TRUE)>>,
   <<createTestDOMTree(FALSE), ScenarioNewTree>>,
   <<createTestDOMTree(FALSE), createTestDOMTree(FALSE)>>,
   <<Single(DivA("/html/div")), Single(SpanB("/html/span"))>>,
   <<Under(HtmlRoot, DivA("/html/div")), Under(HtmlRoot, SpanB("/html/span"))>>,
   <<Under(HtmlRoot, DivA("")), Under(HtmlRoot, SpanB(""))>>,
   <<Under(HtmlRoot, DivA("")),
     <<WithChildren(HtmlRoot, <<2, 3>>), SpanB(""), DivA("")>>>>,
   <<Single(DivXC), Single(DivXCD)>>,
   <<<<WithChildren(HtmlRoot, <<TextChild, 2, TextChild>>), DivXC>>,
     <<WithChildren(HtmlRoot, <<2, TextChild>>), DivXCD>>>>,
   <<Under(HtmlRoot, DivXAt(Coordinates(1, 1))), Under(HtmlRoot, DivXAt(NoCoordinates))>>,
   <<Under(HtmlRoot, DivXAt(NoCoordinates)), Under(HtmlRoot, DivXAt(Coordinates(1, 1)))>>,
   <<Under(HtmlRoot, DivXAt(Coordinates(1, 1))), Under(HtmlRoot, DivXAt(Coordinates(2, 1)))>>,
   <<Under(HtmlRoot, DivXAt(NoCoordinates)),
     Under(HtmlRoot, [DivXAt(NoCoordinates) EXCEPT
                        !.attributes = Append(@, <<"constructor", Str_c>>)])>>}
  \cup {<<Under(HtmlRoot, Wide(ClassTokens, "div", "/html/div[1]")),
          Under(HtmlRoot, Wide(k, "div", "/html/div[2]"))>> : k \in SharedByTagId}
  \cup {<<Under(HtmlRoot, Wide(ClassTokens, "div", "/html/div")),
          Under(HtmlRoot, Wide(k, "span", "/html/div"))>> : k \in SharedByPathId}

Inputs == (GenericTrees \X GenericTrees) \cup ScenarioPairs

\* ------------------------------------------------------------------------
\* compareDOMTrees as a state machine
\* ------------------------------------------------------------------------
VARIABLES
  oldTree, newTree,          \* the two arguments of compareDOMTrees
  result,                    \* the DOMDiffResult under construction
  processedOldElements,      \* Set<DOMElementNode> of old-tree instances
  processedNewElements,      \* Set<DOMElementNode> of new-tree instances
  stack,                     \* active compareChildNodes calls, innermost last
  sweep,                     \* nodes the running find*Elements has yet to visit
  matched,                   \* log of the (old, new) pairs handed to compareNodes
  elem1, elem2,              \* the two element arguments of a call of the scorer or the detector
  returnedScore,             \* what calculateSimilarityScore returned
  returnedChanges,           \* what detectElementChanges returned
  report,                    \* what formatDOMDiffResult returned
  realTimePromise,           \* the promise trackRealTimeDOMChanges returned
  initialTree, delayMs,      \* arguments of trackDOMChanges
  getCurrentTree,            \* the provider argument: what its promise settles with
  currentTree,               \* the local of trackDOMChanges
  clock,                     \* milliseconds since setTimeout was called
  providerCalls,             \* how often getCurrentTree was invoked
  comparatorCalls,           \* how often trackDOMChanges invoked compareDOMTrees
  promise,                   \* the promise trackDOMChanges returned
  pages,                     \* what the browser yields at the successive calls of getCurrentDOMTree
  storage,                   \* chrome.storage.local of the extension
  storeCalls,                \* the storeWorkflowData calls made: arguments, local, position
  ports,                     \* the runtime ports of the extension: name and connection state
  currentPort,               \* let currentPort of background/index.ts
  posted,                    \* the ports a workflowUpdated message was posted to
  content,                   \* the content script's module variables and its window's pending timers
  channel,                   \* messages between content script and background that are in flight
  eventCount,                \* how many events handleEvent processed (stands for Date.now())
  lastBatch,                 \* the events of the last batchUploadEvents message
  suspended,                 \* a second compareDOMTrees call, waiting at an await
  running,                   \* which of the two calls the other variables describe
  pc

\* the state of background/index.ts
indexVars == <<storage, storeCalls, ports, currentPort, posted, content, channel, eventCount, lastBatch>>

\* the state of trackRealTimeDOMChanges and of background/index.ts
restVars == <<realTimePromise, pages, indexVars>>

vars == <<oldTree, newTree, result, processedOldElements, processedNewElements,
          stack, sweep, matched, elem1, elem2, returnedScore, returnedChanges, report,
          restVars, initialTree, delayMs, getCurrentTree, currentTree, clock, providerCalls,
          comparatorCalls, promise, suspended, running, pc>>

diffVars == <<oldTree, newTree, result, processedOldElements, processedNewElements,
              stack, sweep, matched>>
scoreVars == <<elem1, elem2, returnedScore>>
trackVars == <<initialTree, delayMs, getCurrentTree, currentTree, clock, providerCalls,
               comparatorCalls, promise>>
otherCallVars == <<suspended, running>>
\* what no step of compareDOMTrees touches
outsideVars == <<scoreVars, returnedChanges, report, restVars, trackVars, otherCallVars>>

NoTree == <<>>
NoCall == <<>>
Pending == [state |-> "pending"]

\* no trackDOMChanges call is under way
TrackIdle ==
  /\ initialTree = NoTree /\ currentTree = NoTree
  /\ delayMs = 0 /\ clock = 0
  /\ getCurrentTree = [ok |-> TRUE, tree |-> NoTree]
  /\ providerCalls = 0 /\ comparatorCalls = 0
  /\ promise = Pending

\* no trackRealTimeDOMChanges call is under way
EmptyObject == <<>>

MaxPorts == 3
Ports == 1..MaxPorts
\* let currentPort = null
NoPort == 0
SidePanelConnection == "side-panel-connection"

\* let domChangeTimeoutId = null, let lastDomSnapshotData = null
NoTimer == 0
NoSnapshot == 0
\* changes: ['Waiting for DOM changes...'] (line 1906) and what
\* detectDomChanges returns
Placeholder == <<"Waiting for DOM changes...">>
ActualChanges == <<"detected changes">>

\* lines 756-842 and 2898, after initEventListeners (line 2863) has run:
\* initWorkflowRecording (lines 2676-2693) recorded the page load with
\* forceDomSnapshot = true before any listener was added
ContentLoaded ==
  [eventQueue |-> <<>>,
   pendingClickEvents |-> EmptyObject,
   workflowHistory |-> <<[action |-> "Opened page", changes |-> ActualChanges,
                          timestamp |-> 0, elementInfo |-> "fallback"]>>,
   waitingForDomChanges |-> FALSE,
   domChangeTimeoutId |-> NoTimer,
   lastDomSnapshotData |-> NoSnapshot,
   scrollState |-> [isScrolling |-> FALSE, scrollDebounceTimeout |-> NoTimer],
   timers |-> {}]

\* background/index.ts has done nothing yet
IndexIdle ==
  /\ storage = [workflow_ |-> EmptyObject, all_workflows |-> <<>>]
  /\ storeCalls = <<>>
  /\ ports = [p \in Ports |-> [name |-> SidePanelConnection, state |-> "new"]]
  /\ currentPort = NoPort
  /\ posted = {}
  /\ content = ContentLoaded
  /\ channel = {}
  /\ eventCount = 0
  /\ lastBatch = <<>>

RestIdle ==
  /\ realTimePromise = Pending
  /\ pages = <<>>
  /\ IndexIdle

\* there is no second compareDOMTrees call
OtherCallIdle == suspended = NoCall /\ running = 1

Root == 1

EmptyResult == [added |-> <<>>, removed |-> <<>>, modified |-> <<>>, unchanged |-> <<>>]

Init ==
  /\ \E io \in Inputs : oldTree = io[1] /\ newTree = io[2]
  /\ result = EmptyResult
  /\ processedOldElements = {}
  /\ processedNewElements = {}
  /\ stack = <<>>
  /\ sweep = <<>>
  /\ matched = <<>>
  /\ elem1 = HtmlRoot /\ elem2 = HtmlRoot /\ returnedScore = DoubleZero
  /\ returnedChanges = <<>>
  /\ report = <<>>
  /\ RestIdle
  /\ TrackIdle
  /\ OtherCallIdle
  /\ pc = "start"

\* a compareChildNodes call at the start of its loop
Frame(oldParent, newParent) == [oldParent |-> oldParent, newParent |-> newParent, i |-> 1]

\* compareNodes without line 58: the new node is not marked as processed
compareNodesNewUnmarked(oldNode, newNode, res, processedOld, processedNew) ==
  LET identical == compareHistoryElementAndDomElement(oldTree[oldNode], newTree[newNode])
  IN [processedOld |-> processedOld \cup {oldNode},
      processedNew |-> processedNew,
      result |->
        IF identical
          THEN [res EXCEPT !.unchanged = Append(@, oldNode)]
          ELSE [res EXCEPT !.modified =
                  Append(@, [oldElement |-> oldNode, newElement |-> newNode,
                             changes |-> detectElementChanges(oldTree[oldNode],
                                                              newTree[newNode])])],
      calls |-> IF identical THEN <<Frame(oldNode, newNode)>>
                             ELSE <<Frame(oldNode, newNode)>>]

\* compareNodes with the test of `identical` dropped: every pair is unchanged
compareNodesAlwaysUnchanged(oldNode, newNode, res, processedOld, processedNew) ==
  [processedOld |-> processedOld \cup {oldNode},
   processedNew |-> processedNew \cup {newNode},
   result |-> [res EXCEPT !.unchanged = Append(@, oldNode)],
   calls |-> <<Frame(oldNode, newNode)>>]

\* compareNodes without the compareChildNodes call of line 69: the children
\* of an unchanged pair are not aligned
compareNodesAligningModifiedOnly(oldNode, newNode, res, processedOld, processedNew) ==
  LET identical == compareHistoryElementAndDomElement(oldTree[oldNode], newTree[newNode])
  IN [processedOld |-> processedOld \cup {oldNode},
      processedNew |-> processedNew \cup {newNode},
      result |->
        IF identical
          THEN [res EXCEPT !.unchanged = Append(@, oldNode)]
          ELSE [res EXCEPT !.modified =
                  Append(@, [oldElement |-> oldNode, newElement |-> newNode,
                             changes |-> detectElementChanges(oldTree[oldNode],
                                                              newTree[newNode])])],
      calls |-> IF identical THEN <<>> ELSE <<Frame(oldNode, newNode)>>]

\* compareNodes up to its call of compareChildNodes: both nodes are marked,
\* the old node is put under unchanged or modified, and either branch calls
\* compareChildNodes on the pair (lines 69 and 80)
compareNodes(oldNode, newNode, res, processedOld, processedNew) ==
  LET identical == compareHistoryElementAndDomElement(oldTree[oldNode], newTree[newNode])
  IN [processedOld |-> processedOld \cup {oldNode},
      processedNew |-> processedNew \cup {newNode},
      result |->
        IF identical
          THEN [res EXCEPT !.unchanged = Append(@, oldNode)]
          ELSE [res EXCEPT !.modified =
                  Append(@, [oldElement |-> oldNode, newElement |-> newNode,
                             changes |-> detectElementChanges(oldTree[oldNode],
                                                              newTree[newNode])])],
      calls |-> IF identical THEN <<Frame(oldNode, newNode)>>
                             ELSE <<Frame(oldNode, newNode)>>]

\* the inner loop without the test of line 104: claimed candidates stay eligible
RECURSIVE BestMatchAmongAll(_, _, _, _, _, _)
BestMatchAmongAll(oldChild, newElementChildren, k, processedNew, bestMatch, highestScore) ==
  IF k > Len(newElementChildren)
    THEN [bestMatch |-> bestMatch, highestScore |-> highestScore]
    ELSE LET newChild == newElementChildren[k]
             score == calculateSimilarityScore(oldTree[oldChild], newTree[newChild])
         IN IF DoubleGT(score, highestScore)
              THEN BestMatchAmongAll(oldChild, newElementChildren, k + 1, processedNew,
                                     newChild, score)
              ELSE BestMatchAmongAll(oldChild, newElementChildren, k + 1, processedNew,
                                     bestMatch, highestScore)

\* the inner loop with `score >= highestScore`: a later candidate replaces
\* the best one on a tie
RECURSIVE BestMatchLastOfTies(_, _, _, _, _, _)
BestMatchLastOfTies(oldChild, newElementChildren, k, processedNew, bestMatch, highestScore) ==
  IF k > Len(newElementChildren)
    THEN [bestMatch |-> bestMatch, highestScore |-> highestScore]
    ELSE LET newChild == newElementChildren[k]
             score == calculateSimilarityScore(oldTree[oldChild], newTree[newChild])
         IN IF newChild \notin processedNew /\ ~DoubleGT(highestScore, score)
              THEN BestMatchLastOfTies(oldChild, newElementChildren, k + 1, processedNew,
                                       newChild, score)
              ELSE BestMatchLastOfTies(oldChild, newElementChildren, k + 1, processedNew,
                                       bestMatch, highestScore)

\* the inner loop of compareChildNodes over newElementChildren[k..]
RECURSIVE BestMatch(_, _, _, _, _, _)
BestMatch(oldChild, newElementChildren, k, processedNew, bestMatch, highestScore) ==
  IF k > Len(newElementChildren)
    THEN [bestMatch |-> bestMatch, highestScore |-> highestScore]
    ELSE LET newChild == newElementChildren[k]
             score == calculateSimilarityScore(oldTree[oldChild], newTree[newChild])
         IN IF newChild \notin processedNew /\ DoubleGT(score, highestScore)
              THEN BestMatch(oldChild, newElementChildren, k + 1, processedNew, newChild, score)
              ELSE BestMatch(oldChild, newElementChildren, k + 1, processedNew,
                             bestMatch, highestScore)

NoMatch == 0

\* the test of line 116 without its threshold
AcceptedAnyBest(best) == best.bestMatch # NoMatch

\* `bestMatch && highestScore > 0.7`
Accepted(best) == best.bestMatch # NoMatch /\ DoubleGT(best.highestScore, MatchThreshold)

\* compareDOMTrees with the roots put to the test of compareChildNodes
CompareDOMTreesWithThreshold ==
  /\ pc = "start"
  /\ IF DoubleGT(calculateSimilarityScore(oldTree[Root], newTree[Root]), MatchThreshold)
       THEN LET c == compareNodes(Root, Root, EmptyResult, {}, {})
            IN /\ result' = c.result
               /\ processedOldElements' = c.processedOld
               /\ processedNewElements' = c.processedNew
               /\ matched' = <<<<Root, Root>>>>
               /\ stack' = c.calls
               /\ IF c.calls = <<>>
                    THEN pc' = "findRemoved" /\ sweep' = <<Root>>
                    ELSE pc' = "compare" /\ sweep' = sweep
       ELSE /\ result' = EmptyResult
            /\ processedOldElements' = {}
            /\ processedNewElements' = {}
            /\ matched' = <<>>
            /\ stack' = <<>>
            /\ pc' = "findRemoved"
            /\ sweep' = <<Root>>
  /\ UNCHANGED <<oldTree, newTree, outsideVars>>

\* compareDOMTrees, lines 23-35: fresh result and sets, then compareNodes on the roots
CompareDOMTrees ==
  /\ pc = "start"
  /\ newTree # NoTree
  /\ LET c == compareNodes(Root, Root, EmptyResult, {}, {})
     IN /\ result' = c.result
        /\ processedOldElements' = c.processedOld
        /\ processedNewElements' = c.processedNew
        /\ stack' = c.calls
        /\ IF c.calls = <<>>
             THEN pc' = "findRemoved" /\ sweep' = <<Root>>
             ELSE pc' = "compare" /\ sweep' = sweep
  /\ matched' = <<<<Root, Root>>>>
  /\ UNCHANGED <<oldTree, newTree, outsideVars>>

\* one iteration of the loop with the candidates visited in no fixed order:
\* any unclaimed candidate above the threshold may end up as bestMatch
CompareChildNodesAnyOrder ==
  /\ pc = "compare"
  /\ stack # <<>>
  /\ LET f == stack[Len(stack)]
         oldElementChildren == ElementChildren(oldTree[f.oldParent])
         newElementChildren == ElementChildren(newTree[f.newParent])
         advanced == [stack EXCEPT ![Len(stack)].i = f.i + 1]
     IN /\ f.i <= Len(oldElementChildren)
        /\ LET oldChild == oldElementChildren[f.i]
               candidates ==
                 {newElementChildren[k] : k \in 1..Len(newElementChildren)}
                   \ processedNewElements
               eligible ==
                 {n \in candidates :
                    DoubleGT(calculateSimilarityScore(oldTree[oldChild], newTree[n]),
                             MatchThreshold)}
           IN IF oldChild \notin processedOldElements /\ eligible # {}
                THEN \E n \in eligible :
                       LET c == compareNodes(oldChild, n, result,
                                             processedOldElements, processedNewElements)
                       IN /\ result' = c.result
                          /\ processedOldElements' = c.processedOld
                          /\ processedNewElements' = c.processedNew
                          /\ matched' = Append(matched, <<oldChild, n>>)
                          /\ stack' = advanced \o c.calls
                ELSE /\ stack' = advanced
                     /\ UNCHANGED <<result, processedOldElements, processedNewElements,
                                    matched>>
  /\ UNCHANGED <<oldTree, newTree, sweep, pc, outsideVars>>

\* the loop with an unmatched old child's own children tried against the
\* same new parent
CompareChildNodesDescending ==
  /\ pc = "compare"
  /\ stack # <<>>
  /\ LET f == stack[Len(stack)]
         oldElementChildren == ElementChildren(oldTree[f.oldParent])
         newElementChildren == ElementChildren(newTree[f.newParent])
         advanced == [stack EXCEPT ![Len(stack)].i = f.i + 1]
     IN /\ f.i <= Len(oldElementChildren)
        /\ LET oldChild == oldElementChildren[f.i]
               best == BestMatch(oldChild, newElementChildren, 1, processedNewElements,
                                 NoMatch, DoubleZero)
           IN IF oldChild \notin processedOldElements /\ Accepted(best)
                THEN LET c == compareNodes(oldChild, best.bestMatch, result,
                                           processedOldElements, processedNewElements)
                     IN /\ result' = c.result
                        /\ processedOldElements' = c.processedOld
                        /\ processedNewElements' = c.processedNew
                        /\ matched' = Append(matched, <<oldChild, best.bestMatch>>)
                        /\ stack' = advanced \o c.calls
                ELSE /\ stack' = Append(advanced, Frame(oldChild, f.newParent))
                     /\ UNCHANGED <<result, processedOldElements, processedNewElements,
                                    matched>>
  /\ UNCHANGED <<oldTree, newTree, sweep, pc, outsideVars>>

\* the loop with every element node of the new tree as a candidate, not only
\* the children of the new parent
CompareChildNodesAnywhere ==
  /\ pc = "compare"
  /\ stack # <<>>
  /\ LET f == stack[Len(stack)]
         oldElementChildren == ElementChildren(oldTree[f.oldParent])
         newElementChildren == [j \in 1..Len(newTree) |-> j]
         advanced == [stack EXCEPT ![Len(stack)].i = f.i + 1]
     IN /\ f.i <= Len(oldElementChildren)
        /\ LET oldChild == oldElementChildren[f.i]
               best == BestMatch(oldChild, newElementChildren, 1, processedNewElements,
                                 NoMatch, DoubleZero)
           IN IF oldChild \notin processedOldElements /\ Accepted(best)
                THEN LET c == compareNodes(oldChild, best.bestMatch, result,
                                           processedOldElements, processedNewElements)
                     IN /\ result' = c.result
                        /\ processedOldElements' = c.processedOld
                        /\ processedNewElements' = c.processedNew
                        /\ matched' = Append(matched, <<oldChild, best.bestMatch>>)
                        /\ stack' = advanced \o c.calls
                ELSE /\ stack' = advanced
                     /\ UNCHANGED <<result, processedOldElements, processedNewElements,
                                    matched>>
  /\ UNCHANGED <<oldTree, newTree, sweep, pc, outsideVars>>

\* one iteration of the loop over oldElementChildren of the innermost call
CompareChildNodes ==
  /\ pc = "compare"
  /\ stack # <<>>
  /\ LET f == stack[Len(stack)]
         oldElementChildren == ElementChildren(oldTree[f.oldParent])
         newElementChildren == ElementChildren(newTree[f.newParent])
         advanced == [stack EXCEPT ![Len(stack)].i = f.i + 1]
     IN /\ f.i <= Len(oldElementChildren)
        /\ LET oldChild == oldElementChildren[f.i]
               best == BestMatch(oldChild, newElementChildren, 1, processedNewElements,
                                 NoMatch, DoubleZero)
           IN IF oldChild \notin processedOldElements /\ Accepted(best)
                THEN LET c == compareNodes(oldChild, best.bestMatch, result,
                                           processedOldElements, processedNewElements)
                     IN /\ result' = c.result
                        /\ processedOldElements' = c.processedOld
                        /\ processedNewElements' = c.processedNew
                        /\ matched' = Append(matched, <<oldChild, best.bestMatch>>)
                        /\ stack' = advanced \o c.calls
                ELSE /\ stack' = advanced
                     /\ UNCHANGED <<result, processedOldElements, processedNewElements,
                                    matched>>
  /\ UNCHANGED <<oldTree, newTree, sweep, pc, outsideVars>>

\* the loop of the innermost compareChildNodes is over: it returns, and so
\* does the compareNodes that called it; after the outermost, findRemovedElements starts
CompareChildNodesReturn ==
  /\ pc = "compare"
  /\ stack # <<>>
  /\ stack[Len(stack)].i > Len(ElementChildren(oldTree[stack[Len(stack)].oldParent]))
  /\ stack' = SubSeq(stack, 1, Len(stack) - 1)
  /\ IF Len(stack) = 1
       THEN pc' = "findRemoved" /\ sweep' = <<Root>>
       ELSE UNCHANGED <<pc, sweep>>
  /\ UNCHANGED <<oldTree, newTree, result, processedOldElements, processedNewElements,
                 matched, outsideVars>>

\* findRemovedElements without the test of line 130
findRemovedElementsUnguarded(node, processedElements, res) ==
  [processed |-> processedElements \cup {node},
   result |-> [res EXCEPT !.removed = Append(@, node)]]

\* findRemovedElements on one node, before it recurses into the children
findRemovedElements(node, processedElements, res) ==
  IF node \notin processedElements
    THEN [processed |-> processedElements \cup {node},
          result |-> [res EXCEPT !.removed = Append(@, node)]]
    ELSE [processed |-> processedElements, result |-> res]

\* findAddedElements on one node, before it recurses into the children
findAddedElements(node, processedElements, res) ==
  IF node \notin processedElements
    THEN [processed |-> processedElements \cup {node},
          result |-> [res EXCEPT !.added = Append(@, node)]]
    ELSE [processed |-> processedElements, result |-> res]

\* the sweep with node.children overwritten by its element children
FindRemovedElementsFilteringInPlace ==
  /\ pc = "findRemoved"
  /\ sweep # <<>>
  /\ LET r == findRemovedElements(Head(sweep), processedOldElements, result)
         rest == ElementChildren(oldTree[Head(sweep)]) \o Tail(sweep)
     IN /\ result' = r.result
        /\ processedOldElements' = r.processed
        /\ oldTree' = [oldTree EXCEPT ![Head(sweep)].children =
                                         ElementChildren(oldTree[Head(sweep)])]
        /\ IF rest = <<>>
             THEN pc' = "findAdded" /\ sweep' = <<Root>>
             ELSE pc' = pc /\ sweep' = rest
  /\ UNCHANGED <<newTree, processedNewElements, stack, matched, outsideVars>>

\* the sweep without the instanceof test of line 137: text children are
\* visited as well
FindRemovedElementsVisitingText ==
  /\ pc = "findRemoved"
  /\ sweep # <<>>
  /\ LET r == findRemovedElements(Head(sweep), processedOldElements, result)
         rest == (IF Head(sweep) = TextChild THEN <<>> ELSE oldTree[Head(sweep)].children)
                   \o Tail(sweep)
     IN /\ result' = r.result
        /\ processedOldElements' = r.processed
        /\ IF rest = <<>>
             THEN pc' = "findAdded" /\ sweep' = <<Root>>
             ELSE pc' = pc /\ sweep' = rest
  /\ UNCHANGED <<oldTree, newTree, processedNewElements, stack, matched, outsideVars>>

\* the sweep with the recursion moved inside the test of line 130: only the
\* children of a node it has just collected are visited
FindRemovedElementsBelowCollectedOnly ==
  /\ pc = "findRemoved"
  /\ sweep # <<>>
  /\ LET r == findRemovedElements(Head(sweep), processedOldElements, result)
         rest == (IF Head(sweep) \notin processedOldElements
                    THEN ElementChildren(oldTree[Head(sweep)]) ELSE <<>>) \o Tail(sweep)
     IN /\ result' = r.result
        /\ processedOldElements' = r.processed
        /\ IF rest = <<>>
             THEN pc' = "findAdded" /\ sweep' = <<Root>>
             ELSE pc' = pc /\ sweep' = rest
  /\ UNCHANGED <<oldTree, newTree, processedNewElements, stack, matched, outsideVars>>

\* pre-order: the element children of the visited node come before the rest
FindRemovedElements ==
  /\ pc = "findRemoved"
  /\ sweep # <<>>
  /\ LET r == findRemovedElements(Head(sweep), processedOldElements, result)
         rest == ElementChildren(oldTree[Head(sweep)]) \o Tail(sweep)
     IN /\ result' = r.result
        /\ processedOldElements' = r.processed
        /\ IF rest = <<>>
             THEN pc' = "findAdded" /\ sweep' = <<Root>>
             ELSE pc' = pc /\ sweep' = rest
  /\ UNCHANGED <<oldTree, newTree, processedNewElements, stack, matched, outsideVars>>

\* the sweep that starts over at the root when it has run out of nodes
FindAddedElementsStartingOver ==
  /\ pc = "findAdded"
  /\ sweep # <<>>
  /\ LET r == findAddedElements(Head(sweep), processedNewElements, result)
         rest == ElementChildren(newTree[Head(sweep)]) \o Tail(sweep)
     IN /\ result' = r.result
        /\ processedNewElements' = r.processed
        /\ pc' = pc
        /\ sweep' = IF rest = <<>> THEN <<Root>> ELSE rest
  /\ UNCHANGED <<oldTree, newTree, processedOldElements, stack, matched, outsideVars>>

FindAddedElements ==
  /\ pc = "findAdded"
  /\ sweep # <<>>
  /\ LET r == findAddedElements(Head(sweep), processedNewElements, result)
         rest == ElementChildren(newTree[Head(sweep)]) \o Tail(sweep)
     IN /\ result' = r.result
        /\ processedNewElements' = r.processed
        /\ IF rest = <<>>
             THEN pc' = "done" /\ sweep' = <<>>
             ELSE pc' = pc /\ sweep' = rest
  /\ UNCHANGED <<oldTree, newTree, processedOldElements, stack, matched, outsideVars>>

Next ==
  \/ CompareDOMTrees
  \/ CompareChildNodes
  \/ CompareChildNodesReturn
  \/ FindRemovedElements
  \/ FindAddedElements

Spec == Init /\ [][Next]_vars

\* ENABLED <<CompareChildNodes>>_vars, written out: the innermost loop has
\* an old child left
CompareChildNodesEnabled ==
  /\ pc = "compare"
  /\ stack # <<>>
  /\ stack[Len(stack)].i <= Len(ElementChildren(oldTree[stack[Len(stack)].oldParent]))

\* a compareDOMTrees call that was started keeps being run, since each await
\* resumes once the promise it waits for is settled: weak fairness of every
\* step (for CompareChildNodes in the form []<>~ENABLED \/ []<><<A>>_vars)
SpecLive ==
  /\ Spec
  /\ WF_vars(CompareDOMTrees)
  /\ ([]<>~CompareChildNodesEnabled \/ []<><<CompareChildNodes>>_vars)
  /\ WF_vars(CompareChildNodesReturn)
  /\ WF_vars(FindRemovedElements)
  /\ WF_vars(FindAddedElements)

\* ------------------------------------------------------------------------
\* calculateSimilarityScore on its own, over pairs of element nodes
\* ------------------------------------------------------------------------
ScoreTags == {"div", "span"}
ScorePaths == {"", "/html/div"}
\* no attribute, or the attribute with one of the values
IdOptions == {<<>>} \cup {<<<<"id", v>>>> : v \in {<<>>, Str_x, Str_a}}
ClassOptions ==
  {<<>>} \cup {<<<<"class", v>>>> :
                 v \in {<<>>, Str_c, Str_c_d, <<" ", "c">>, <<"d", " ", " ", "c">>,
                        SharedClass(ClassTokens), SharedClass(7)}}

ScoreNodes ==
  {DOMElementNode(t, p, i \o c, TRUE, FALSE, NoCoordinates) :
     t \in ScoreTags, p \in ScorePaths, i \in IdOptions, c \in ClassOptions}

InitScore ==
  /\ elem1 \in ScoreNodes
  /\ elem2 \in ScoreNodes
  /\ returnedScore = DoubleZero
  /\ oldTree = Single(HtmlRoot) /\ newTree = Single(HtmlRoot)
  /\ result = EmptyResult
  /\ processedOldElements = {}
  /\ processedNewElements = {}
  /\ stack = <<>>
  /\ sweep = <<>>
  /\ matched = <<>>
  /\ returnedChanges = <<>>
  /\ report = <<>>
  /\ RestIdle
  /\ TrackIdle
  /\ OtherCallIdle
  /\ pc = "score"

CalculateSimilarityScore ==
  /\ pc = "score"
  /\ returnedScore' = calculateSimilarityScore(elem1, elem2)
  /\ pc' = "scored"
  /\ UNCHANGED <<elem1, elem2, diffVars, returnedChanges, report, restVars, trackVars, otherCallVars>>

NextScore == CalculateSimilarityScore

SpecScore == InitScore /\ [][NextScore]_vars

Scored == pc = "scored"

\* a compareDOMTrees call has returned its result
Returned == pc = "done"

OldElements == 1..Len(oldTree)
NewElements == 1..Len(newTree)

\* ------------------------------------------------------------------------
\* detectElementChanges on its own, over pairs of element nodes
\* ------------------------------------------------------------------------
Str_t == <<"t">>
DetectTags == {"div", "span"}
\* the attributes a node may carry, and the maps of at most two of them
\* with different keys, in both insertion orders
DetectEntries ==
  {<<"id", Str_x>>, <<"id", Str_a>>, <<"title", Str_t>>, <<"constructor", Str_c>>}
DetectAttributes ==
  {<<>>} \cup {<<e>> : e \in DetectEntries}
         \cup {p \in DetectEntries \X DetectEntries : p[1][1] # p[2][1]}
DetectCoordinates ==
  {NoCoordinates, Coordinates(0, 0), Coordinates(1, 0), Coordinates(0, 1)}

DetectNodes ==
  {DOMElementNode(t, "/html/div", a, v, i, vc) :
     t \in DetectTags, a \in DetectAttributes, v \in BOOLEAN, i \in BOOLEAN,
     vc \in DetectCoordinates}

InitDetect ==
  /\ elem1 \in DetectNodes
  /\ elem2 \in DetectNodes
  /\ returnedChanges = <<>>
  /\ report = <<>>
  /\ RestIdle
  /\ returnedScore = DoubleZero
  /\ oldTree = Single(HtmlRoot) /\ newTree = Single(HtmlRoot)
  /\ result = EmptyResult
  /\ processedOldElements = {}
  /\ processedNewElements = {}
  /\ stack = <<>>
  /\ sweep = <<>>
  /\ matched = <<>>
  /\ TrackIdle
  /\ OtherCallIdle
  /\ pc = "detect"

\* detectElementChanges(elem1, elem2) is called and returns
DetectElementChanges ==
  /\ pc = "detect"
  /\ returnedChanges' = detectElementChanges(elem1, elem2)
  /\ pc' = "detected"
  /\ UNCHANGED <<elem1, elem2, returnedScore, report, restVars, diffVars, trackVars, otherCallVars>>

NextDetect == DetectElementChanges

SpecDetect == InitDetect /\ [][NextDetect]_vars

Detected == pc = "detected"

\* ------------------------------------------------------------------------
\* compareDOMTrees evaluated in one piece, as the recursion of the source
\* ------------------------------------------------------------------------
RECURSIVE compareNodesRec(_, _, _)
RECURSIVE compareChildNodesRec(_, _, _, _)

\* compareNodes with its call of compareChildNodes; st holds the two sets and the result
compareNodesRec(oldNode, newNode, st) ==
  LET c == compareNodes(oldNode, newNode, st.result, st.processedOld, st.processedNew)
  IN IF c.calls = <<>> THEN c ELSE compareChildNodesRec(oldNode, newNode, 1, c)

\* the loop of compareChildNodes from its i-th old element child on
compareChildNodesRec(oldParent, newParent, i, st) ==
  LET oldElementChildren == ElementChildren(oldTree[oldParent])
      newElementChildren == ElementChildren(newTree[newParent])
  IN IF i > Len(oldElementChildren)
       THEN st
       ELSE LET oldChild == oldElementChildren[i]
                best == BestMatch(oldChild, newElementChildren, 1, st.processedNew,
                                  NoMatch, DoubleZero)
            IN compareChildNodesRec(oldParent, newParent, i + 1,
                 IF oldChild \notin st.processedOld /\ Accepted(best)
                   THEN compareNodesRec(oldChild, best.bestMatch, st)
                   ELSE st)

\* the element nodes of a tree in the order a find*Elements sweep visits them
RECURSIVE Preorder(_, _)
Preorder(tree, nodes) ==
  IF nodes = <<>>
    THEN <<>>
    ELSE <<Head(nodes)>> \o Preorder(tree, ElementChildren(tree[Head(nodes)]) \o Tail(nodes))

RECURSIVE findRemovedElementsRec(_, _, _)
findRemovedElementsRec(nodes, processedElements, res) ==
  IF nodes = <<>>
    THEN res
    ELSE LET r == findRemovedElements(Head(nodes), processedElements, res)
         IN findRemovedElementsRec(Tail(nodes), r.processed, r.result)

RECURSIVE findAddedElementsRec(_, _, _)
findAddedElementsRec(nodes, processedElements, res) ==
  IF nodes = <<>>
    THEN res
    ELSE LET r == findAddedElements(Head(nodes), processedElements, res)
         IN findAddedElementsRec(Tail(nodes), r.processed, r.result)

\* the DOMDiffResult of compareDOMTrees(oldTree, newTree)
compareDOMTreesRec ==
  LET st == compareNodesRec(Root, Root, [processedOld |-> {}, processedNew |-> {},
                                         result |-> EmptyResult])
      afterRemoved == findRemovedElementsRec(Preorder(oldTree, <<Root>>), st.processedOld,
                                             st.result)
  IN findAddedElementsRec(Preorder(newTree, <<Root>>), st.processedNew, afterRemoved)

\* ------------------------------------------------------------------------
\* trackDOMChanges
\* ------------------------------------------------------------------------
MaxDelay == 2

\* the failures a snapshot provider may reject with
ProviderErrors == {"no active tab", "script injection failed"}

TrackInputs ==
  ScenarioPairs \cup {io \in GenericTrees \X GenericTrees : Len(io[1]) <= 2 /\ Len(io[2]) <= 2}

InitTrack ==
  /\ \E io \in TrackInputs :
       /\ initialTree = io[1]
       /\ getCurrentTree \in {[ok |-> TRUE, tree |-> io[2]]}
                               \cup {[ok |-> FALSE, error |-> e] : e \in ProviderErrors}
  /\ delayMs \in 0..MaxDelay
  /\ currentTree = NoTree
  /\ clock = 0 /\ providerCalls = 0 /\ comparatorCalls = 0
  /\ promise = Pending
  /\ oldTree = NoTree /\ newTree = NoTree
  /\ result = EmptyResult
  /\ processedOldElements = {}
  /\ processedNewElements = {}
  /\ stack = <<>>
  /\ sweep = <<>>
  /\ matched = <<>>
  /\ elem1 = HtmlRoot /\ elem2 = HtmlRoot /\ returnedScore = DoubleZero
  /\ returnedChanges = <<>>
  /\ report = <<>>
  /\ RestIdle
  /\ OtherCallIdle
  /\ pc = "track"

\* lines 281-284: the log line, then setTimeout(resolve, delayMs) and the await on it
TrackDOMChanges ==
  /\ pc = "track"
  /\ clock' = 0
  /\ pc' = "wait"
  /\ UNCHANGED <<diffVars, scoreVars, returnedChanges, report, restVars, otherCallVars, initialTree, delayMs,
                 getCurrentTree, currentTree, providerCalls, comparatorCalls, promise>>

\* a millisecond passes while the timer is pending; a timer may fire late
Tick ==
  /\ pc = "wait"
  /\ clock <= MaxDelay
  /\ clock' = clock + 1
  /\ UNCHANGED <<diffVars, scoreVars, returnedChanges, report, restVars, otherCallVars, initialTree, delayMs,
                 getCurrentTree, currentTree, providerCalls, comparatorCalls, promise, pc>>

\* line 287 entered with the delay not awaited
GetCurrentTreeBeforeTimeout ==
  /\ pc = "wait"
  /\ providerCalls' = providerCalls + 1
  /\ pc' = "provider"
  /\ UNCHANGED <<diffVars, scoreVars, returnedChanges, report, restVars, otherCallVars, initialTree, delayMs,
                 getCurrentTree, currentTree, clock, comparatorCalls, promise>>

\* the timer has fired: line 287 calls getCurrentTree() and awaits its promise
GetCurrentTree ==
  /\ pc = "wait"
  /\ clock >= delayMs
  /\ providerCalls' = providerCalls + 1
  /\ pc' = "provider"
  /\ UNCHANGED <<diffVars, scoreVars, returnedChanges, report, restVars, otherCallVars, initialTree, delayMs,
                 getCurrentTree, currentTree, clock, comparatorCalls, promise>>

\* the provider's promise is fulfilled: currentTree is bound
ProviderResolves ==
  /\ pc = "provider"
  /\ getCurrentTree.ok
  /\ currentTree' = getCurrentTree.tree
  /\ pc' = "gotTree"
  /\ UNCHANGED <<diffVars, scoreVars, returnedChanges, report, restVars, otherCallVars, initialTree, delayMs,
                 getCurrentTree, clock, providerCalls, comparatorCalls, promise>>

\* a rejection caught and answered with an empty result
ProviderRejectsSwallowed ==
  /\ pc = "provider"
  /\ ~getCurrentTree.ok
  /\ promise' = [state |-> "fulfilled", value |-> EmptyResult]
  /\ pc' = "resolved"
  /\ UNCHANGED <<diffVars, scoreVars, returnedChanges, report, restVars, otherCallVars, initialTree, delayMs,
                 getCurrentTree, currentTree, clock, providerCalls, comparatorCalls>>

\* the provider's promise is rejected: the await of line 287 throws, nothing
\* catches it, and the promise of trackDOMChanges is rejected with the same reason
ProviderRejects ==
  /\ pc = "provider"
  /\ ~getCurrentTree.ok
  /\ promise' = [state |-> "rejected", reason |-> getCurrentTree.error]
  /\ pc' = "failed"
  /\ UNCHANGED <<diffVars, scoreVars, returnedChanges, report, restVars, otherCallVars, initialTree, delayMs,
                 getCurrentTree, currentTree, clock, providerCalls, comparatorCalls>>

\* line 291: compareDOMTrees(initialTree, currentTree) is called
CallCompareDOMTrees ==
  /\ pc = "gotTree"
  /\ oldTree' = initialTree
  /\ newTree' = currentTree
  /\ comparatorCalls' = comparatorCalls + 1
  /\ pc' = "start"
  /\ UNCHANGED <<result, processedOldElements, processedNewElements, stack, sweep, matched,
                 scoreVars, returnedChanges, report, restVars, otherCallVars, initialTree, delayMs,
                 getCurrentTree, currentTree, clock, providerCalls, promise>>

\* line 291: what compareDOMTrees resolved with fulfils the promise of trackDOMChanges
TrackReturn ==
  /\ pc = "done"
  /\ promise' = [state |-> "fulfilled", value |-> result]
  /\ pc' = "resolved"
  /\ UNCHANGED <<diffVars, scoreVars, returnedChanges, report, restVars, otherCallVars, initialTree, delayMs,
                 getCurrentTree, currentTree, clock, providerCalls, comparatorCalls>>

NextTrack ==
  \/ TrackDOMChanges
  \/ Tick
  \/ GetCurrentTree
  \/ ProviderResolves
  \/ ProviderRejects
  \/ CallCompareDOMTrees
  \/ Next
  \/ TrackReturn

SpecTrack == InitTrack /\ [][NextTrack]_vars

\* ------------------------------------------------------------------------
\* Two compareDOMTrees calls whose steps interleave at their awaits.  The
\* variables of the comparison describe the call that runs; the locals of
\* the other call wait in `suspended`.
\* ------------------------------------------------------------------------
TwoCallInputs == TrackInputs

\* the locals of a compareDOMTrees call on io that has not run a step yet
NewCall(io) ==
  [oldTree |-> io[1], newTree |-> io[2], result |-> EmptyResult,
   processedOldElements |-> {}, processedNewElements |-> {},
   stack |-> <<>>, sweep |-> <<>>, matched |-> <<>>, pc |-> "start"]

InitTwoCalls ==
  /\ \E io \in TwoCallInputs : oldTree = io[1] /\ newTree = io[2]
  /\ result = EmptyResult
  /\ processedOldElements = {}
  /\ processedNewElements = {}
  /\ stack = <<>>
  /\ sweep = <<>>
  /\ matched = <<>>
  /\ pc = "start"
  /\ suspended \in {NewCall(io) : io \in TwoCallInputs}
  /\ running = 1
  /\ elem1 = HtmlRoot /\ elem2 = HtmlRoot /\ returnedScore = DoubleZero
  /\ returnedChanges = <<>>
  /\ report = <<>>
  /\ RestIdle
  /\ TrackIdle

\* the exchange with processedOldElements and processedNewElements kept in
\* place, as if the two sets were shared by all calls
SwitchSharingProcessed ==
  /\ suspended' = [oldTree |-> oldTree, newTree |-> newTree, result |-> result,
                   processedOldElements |-> processedOldElements,
                   processedNewElements |-> processedNewElements,
                   stack |-> stack, sweep |-> sweep, matched |-> matched, pc |-> pc]
  /\ oldTree' = suspended.oldTree
  /\ newTree' = suspended.newTree
  /\ result' = suspended.result
  /\ stack' = suspended.stack
  /\ sweep' = suspended.sweep
  /\ matched' = suspended.matched
  /\ pc' = suspended.pc
  /\ running' = 3 - running
  /\ UNCHANGED <<processedOldElements, processedNewElements, scoreVars, returnedChanges, report, restVars,
                 trackVars>>

\* the running call waits at an await (or has returned) and the event loop
\* turns to the other call; each call keeps its own locals
Switch ==
  /\ suspended' = [oldTree |-> oldTree, newTree |-> newTree, result |-> result,
                   processedOldElements |-> processedOldElements,
                   processedNewElements |-> processedNewElements,
                   stack |-> stack, sweep |-> sweep, matched |-> matched, pc |-> pc]
  /\ oldTree' = suspended.oldTree
  /\ newTree' = suspended.newTree
  /\ result' = suspended.result
  /\ processedOldElements' = suspended.processedOldElements
  /\ processedNewElements' = suspended.processedNewElements
  /\ stack' = suspended.stack
  /\ sweep' = suspended.sweep
  /\ matched' = suspended.matched
  /\ pc' = suspended.pc
  /\ running' = 3 - running
  /\ UNCHANGED <<scoreVars, returnedChanges, report, restVars, trackVars>>

NextTwoCalls ==
  \/ Next
  \/ Switch

SpecTwoCalls == InitTwoCalls /\ [][NextTwoCalls]_vars

\* ------------------------------------------------------------------------
\* compareDOMTrees on trees with text children, next to a call on the same
\* trees without them
\* ------------------------------------------------------------------------
\* a text child before the element children; or one before, between and after them
TextPatterns == {"none", "before", "around"}

RECURSIVE Around(_)
Around(ch) == IF ch = <<>> THEN <<TextChild>> ELSE <<TextChild, Head(ch)>> \o Around(Tail(ch))

WithText(tree, pattern) ==
  [i \in 1..Len(tree) |->
     [tree[i] EXCEPT !.children =
        CASE pattern = "none" -> @
          [] pattern = "before" -> <<TextChild>> \o @
          [] pattern = "around" -> Around(@)]]

WithoutText(tree) ==
  [i \in 1..Len(tree) |-> [tree[i] EXCEPT !.children = ElementChildren(tree[i])]]

TextTrees == {t \in GenericTrees : Len(t) <= 3}

TextInputs ==
  {<<WithText(io[1], p[1]), WithText(io[2], p[2])>> :
     io \in TextTrees \X TextTrees,
     p \in (TextPatterns \X TextPatterns) \ {<<"none", "none">>}}

\* the first call gets trees with text children, the second the same trees
\* without
InitText ==
  /\ \E io \in TextInputs :
       /\ oldTree = io[1] /\ newTree = io[2]
       /\ suspended = NewCall(<<WithoutText(io[1]), WithoutText(io[2])>>)
  /\ result = EmptyResult
  /\ processedOldElements = {}
  /\ processedNewElements = {}
  /\ stack = <<>>
  /\ sweep = <<>>
  /\ matched = <<>>
  /\ pc = "start"
  /\ running = 1
  /\ elem1 = HtmlRoot /\ elem2 = HtmlRoot /\ returnedScore = DoubleZero
  /\ returnedChanges = <<>>
  /\ report = <<>>
  /\ RestIdle
  /\ TrackIdle

SpecText == InitText /\ [][NextTwoCalls]_vars

\* ------------------------------------------------------------------------
\* formatDOMDiffResult over small DOMDiffResults.  A text is a sequence of
\* tokens: a character, or a literal piece of a template taken whole; the
\* labels of the templates are written in English
\* ------------------------------------------------------------------------
LineFeed == "\n"
Digits == <<"0", "1", "2", "3", "4", "5", "6", "7", "8", "9">>

\* `${n}` for a non-negative integer
RECURSIVE NumberToString(_)
NumberToString(n) ==
  IF n < 10 THEN <<Digits[n + 1]>>
  ELSE NumberToString(n \div 10) \o <<Digits[(n % 10) + 1]>>

BooleanText(b) == IF b THEN <<"true">> ELSE <<"false">>
CenterText(vc) == <<"(">> \o NumberToString(vc.x) \o <<",", " ">> \o NumberToString(vc.y) \o <<")">>

\* the string detectElementChanges pushes for a descriptor
ChangeText(d) ==
  CASE d[1] = "tag" -> <<"tag from ", d[2], " to ", d[3]>>
    [] d[1] = "attribute removed" ->
         <<"attribute ", d[2], "=", "\"">> \o d[3] \o <<"\"", " removed">>
    [] d[1] = "attribute changed" ->
         <<"attribute ", d[2], " from ", "\"">> \o d[3] \o <<"\"", " to ", "\"">>
           \o d[4] \o <<"\"">>
    [] d[1] = "attribute added" ->
         <<"added attribute ", d[2], "=", "\"">> \o d[3] \o <<"\"">>
    [] d[1] = "visibility" ->
         <<"visibility from ">> \o BooleanText(d[2]) \o <<" to ">> \o BooleanText(d[3])
    [] d[1] = "interactivity" ->
         <<"interactivity from ">> \o BooleanText(d[2]) \o <<" to ">> \o BooleanText(d[3])
    [] d[1] = "position" ->
         <<"position from ">> \o CenterText(d[2]) \o <<" to ">> \o CenterText(d[3])

\* `<${elem.tagName}> ${elem.xpath ? `(${elem.xpath})` : ''}`
ElementText(elem) ==
  <<"<", elem.tagName, ">", " ">>
    \o (IF elem.xpath # "" THEN <<"(", elem.xpath, ")">> ELSE <<>>)

\* `${i + 1}. ` and the element; position counts from 1 here
NumberedLine(position, elem) == NumberToString(position) \o <<".", " ">> \o ElementText(elem)

Indent == <<" ", " ", " ", "-", " ">>

\* what the forEach over a list of elements pushes
ElementLines(elems) == [i \in 1..Len(elems) |-> NumberedLine(i, elems[i])]

\* what the forEach over result.modified pushes, from entry i on
RECURSIVE ModifiedLines(_, _)
ModifiedLines(modified, i) ==
  IF i > Len(modified) THEN <<>>
  ELSE <<NumberedLine(i, modified[i].oldElement)>>
         \o [j \in 1..Len(modified[i].changes) |-> Indent \o modified[i].changes[j]]
         \o ModifiedLines(modified, i + 1)

\* lines.joinLines('\n')
RECURSIVE joinLines(_)
joinLines(lines) ==
  IF lines = <<>> THEN <<>>
  ELSE IF Len(lines) = 1 THEN lines[1]
  ELSE lines[1] \o <<LineFeed>> \o joinLines(Tail(lines))

Title == <<"===== DOM tree change analysis =====">>
CountLine(label, n) == <<label>> \o NumberToString(n) \o <<" items">>
SectionHeader(label) == <<LineFeed, label>>

formatDOMDiffResult(r) ==
  joinLines(<<Title,
         CountLine("added elements: ", Len(r.added)),
         CountLine("removed elements: ", Len(r.removed)),
         CountLine("modified elements: ", Len(r.modified)),
         CountLine("unchanged elements: ", Len(r.unchanged))>>
       \o (IF Len(r.added) > 0
             THEN <<SectionHeader("----- added elements -----")>> \o ElementLines(r.added)
             ELSE <<>>)
       \o (IF Len(r.removed) > 0
             THEN <<SectionHeader("----- removed elements -----")>> \o ElementLines(r.removed)
             ELSE <<>>)
       \o (IF Len(r.modified) > 0
             THEN <<SectionHeader("----- modified elements -----")>>
                    \o ModifiedLines(r.modified, 1)
             ELSE <<>>))

MaxListed == 2
MaxModified == 2
MaxChanges == 2

SeqsUpTo(S, n) == UNION {[1..k -> S] : k \in 0..n}

\* <span> without an xpath, next to <div id="x" class="c"> with one
SpanNoXPath == DOMElementNode("span", "", <<>>, TRUE, FALSE, NoCoordinates)
FormatNodes == {DivXC, SpanNoXPath}

\* a title holding a line feed, as in title="a&#10;b"
Str_a_LF_b == <<"a", LineFeed, "b">>

\* the strings of a tag change and of a change of title from "t" to "a\nb"
FormatChanges ==
  {ChangeText(<<"tag", "div", "span">>),
   ChangeText(<<"attribute changed", "title", <<"t">>, Str_a_LF_b>>)}

FormatEntries ==
  {[oldElement |-> DivXC, newElement |-> DivXCD, changes |-> c] :
     c \in SeqsUpTo(FormatChanges, MaxChanges)}

FormatResults ==
  [added : SeqsUpTo(FormatNodes, MaxListed),
   removed : SeqsUpTo(FormatNodes, MaxListed),
   modified : SeqsUpTo(FormatEntries, MaxModified),
   unchanged : {<<>>, <<HtmlRoot>>}]

InitFormat ==
  /\ result \in FormatResults
  /\ report = <<>>
  /\ RestIdle
  /\ elem1 = HtmlRoot /\ elem2 = HtmlRoot
  /\ returnedChanges = <<>>
  /\ returnedScore = DoubleZero
  /\ oldTree = Single(HtmlRoot) /\ newTree = Single(HtmlRoot)
  /\ processedOldElements = {}
  /\ processedNewElements = {}
  /\ stack = <<>>
  /\ sweep = <<>>
  /\ matched = <<>>
  /\ TrackIdle
  /\ OtherCallIdle
  /\ pc = "format"

\* formatDOMDiffResult(result) is called and returns
FormatDOMDiffResult ==
  /\ pc = "format"
  /\ report' = formatDOMDiffResult(result)
  /\ pc' = "formatted"
  /\ UNCHANGED <<diffVars, scoreVars, returnedChanges, restVars, trackVars, otherCallVars>>

NextFormat == FormatDOMDiffResult

SpecFormat == InitFormat /\ [][NextFormat]_vars

Formatted == pc = "formatted"

\* ------------------------------------------------------------------------
\* trackRealTimeDOMChanges (test-dom-diff.ts)
\* ------------------------------------------------------------------------
\* what a call of getCurrentDOMTree meets: a page with a state, no current
\* page, or a failure of getCurrentPage or getState
PageOutcomes == {"state", "no page", "throws"}

\* lines 111-130: the element tree of the page's state; null when there is
\* no page (line 119) and when anything throws (line 128)
getCurrentDOMTree(page) == IF page.outcome = "state" THEN page.tree ELSE NoTree

Undefined == "undefined"
TypeError == "TypeError"

InitRealTime ==
  /\ \E io \in TrackInputs :
       pages \in {<<[outcome |-> a, tree |-> io[1]], [outcome |-> b, tree |-> io[2]]>> :
                    a \in PageOutcomes, b \in PageOutcomes}
  /\ delayMs \in 0..MaxDelay
  /\ realTimePromise = Pending
  /\ IndexIdle
  /\ initialTree = NoTree /\ currentTree = NoTree
  /\ clock = 0
  /\ getCurrentTree = [ok |-> TRUE, tree |-> NoTree]
  /\ providerCalls = 0 /\ comparatorCalls = 0
  /\ promise = Pending
  /\ oldTree = NoTree /\ newTree = NoTree
  /\ result = EmptyResult
  /\ processedOldElements = {}
  /\ processedNewElements = {}
  /\ stack = <<>>
  /\ sweep = <<>>
  /\ matched = <<>>
  /\ elem1 = HtmlRoot /\ elem2 = HtmlRoot /\ returnedScore = DoubleZero
  /\ returnedChanges = <<>>
  /\ report = <<>>
  /\ OtherCallIdle
  /\ pc = "realTime"

\* lines 136-140: the two log lines, then getCurrentDOMTree() is called and awaited
TrackRealTimeDOMChanges ==
  /\ pc = "realTime"
  /\ providerCalls' = providerCalls + 1
  /\ pc' = "initial"
  /\ UNCHANGED <<diffVars, scoreVars, returnedChanges, report, restVars, otherCallVars,
                 initialTree, delayMs, getCurrentTree, currentTree, clock, comparatorCalls,
                 promise>>

\* lines 140-148 without the test of line 141: trackDOMChanges is called
\* whatever the first capture gave
InitialTreeCapturedUnchecked ==
  /\ pc = "initial"
  /\ initialTree' = getCurrentDOMTree(pages[1])
  /\ getCurrentTree' = [ok |-> TRUE, tree |-> getCurrentDOMTree(pages[2])]
  /\ pc' = "track"
  /\ UNCHANGED <<diffVars, scoreVars, returnedChanges, report, restVars, otherCallVars,
                 delayMs, currentTree, clock, providerCalls, comparatorCalls, promise>>

\* lines 140-148: without an initial tree the call returns; otherwise it
\* calls trackDOMChanges(initialTree, delayMs, getCurrentDOMTree), whose
\* provider call will settle with what the second capture gives
InitialTreeCaptured ==
  /\ pc = "initial"
  /\ LET tree == getCurrentDOMTree(pages[1])
     IN IF tree = NoTree
          THEN /\ realTimePromise' = [state |-> "fulfilled", value |-> Undefined]
               /\ pc' = "returned"
               /\ UNCHANGED <<initialTree, getCurrentTree, pages, indexVars>>
          ELSE /\ initialTree' = tree
               /\ getCurrentTree' = [ok |-> TRUE, tree |-> getCurrentDOMTree(pages[2])]
               /\ pc' = "track"
               /\ UNCHANGED restVars
  /\ UNCHANGED <<diffVars, scoreVars, returnedChanges, report, otherCallVars,
                 delayMs, currentTree, clock, providerCalls, comparatorCalls, promise>>

\* compareDOMTrees(initialTree, null): compareNodes marks the two arguments,
\* and then the comparator of line 62, detectElementChanges (line 221) or
\* compareChildNodes (line 95) reads a property of null; whichever of them
\* it is, the promise of trackDOMChanges is rejected with a TypeError
CompareDOMTreesOnNull ==
  /\ pc = "start"
  /\ newTree = NoTree
  /\ promise' = [state |-> "rejected", reason |-> TypeError]
  /\ pc' = "failed"
  /\ UNCHANGED <<diffVars, scoreVars, returnedChanges, report, restVars, otherCallVars,
                 initialTree, delayMs, getCurrentTree, currentTree, clock, providerCalls,
                 comparatorCalls>>

\* the nodes behind the indices of a result, and the strings of its descriptors
ResultOf(res) ==
  [added |-> [i \in 1..Len(res.added) |-> newTree[res.added[i]]],
   removed |-> [i \in 1..Len(res.removed) |-> oldTree[res.removed[i]]],
   unchanged |-> [i \in 1..Len(res.unchanged) |-> oldTree[res.unchanged[i]]],
   modified |->
     [i \in 1..Len(res.modified) |->
        [oldElement |-> oldTree[res.modified[i].oldElement],
         newElement |-> newTree[res.modified[i].newElement],
         changes |-> [j \in 1..Len(res.modified[i].changes) |->
                        ChangeText(res.modified[i].changes[j])]]]]

\* lines 148-153: the await on trackDOMChanges returns its result, which is
\* formatted and logged; the call returns
FormatAndLog ==
  /\ pc = "resolved"
  /\ report' = formatDOMDiffResult(ResultOf(promise.value))
  /\ realTimePromise' = [state |-> "fulfilled", value |-> Undefined]
  /\ pc' = "returned"
  /\ UNCHANGED <<diffVars, scoreVars, returnedChanges, pages, indexVars, trackVars, otherCallVars>>

\* line 148: the await on trackDOMChanges throws and nothing catches it
RealTimeRejects ==
  /\ pc = "failed"
  /\ realTimePromise' = [state |-> "rejected", reason |-> promise.reason]
  /\ pc' = "realTimeFailed"
  /\ UNCHANGED <<diffVars, scoreVars, returnedChanges, report, pages, indexVars, trackVars, otherCallVars>>

NextRealTime ==
  \/ TrackRealTimeDOMChanges
  \/ InitialTreeCaptured
  \/ TrackDOMChanges
  \/ Tick
  \/ GetCurrentTree
  \/ ProviderResolves
  \/ CallCompareDOMTrees
  \/ CompareDOMTreesOnNull
  \/ Next
  \/ TrackReturn
  \/ FormatAndLog
  \/ RealTimeRejects

SpecRealTime == InitRealTime /\ [][NextRealTime]_vars

\* ------------------------------------------------------------------------
\* background/index.ts: the workflow store
\* ------------------------------------------------------------------------
\* no call of background/index.ts touches the dom-diff state
HistoryIdle ==
  /\ oldTree = NoTree /\ newTree = NoTree
  /\ result = EmptyResult
  /\ processedOldElements = {}
  /\ processedNewElements = {}
  /\ stack = <<>>
  /\ sweep = <<>>
  /\ matched = <<>>
  /\ elem1 = HtmlRoot /\ elem2 = HtmlRoot /\ returnedScore = DoubleZero
  /\ returnedChanges = <<>>
  /\ report = <<>>
  /\ realTimePromise = Pending
  /\ pages = <<>>
  /\ TrackIdle
  /\ OtherCallIdle

historyVars == <<diffVars, scoreVars, returnedChanges, report, realTimePromise, pages,
                 trackVars, otherCallVars>>

portVars == <<ports, currentPort, posted>>
storeVars == <<storage, storeCalls>>
contentVars == <<content, channel, eventCount, lastBatch>>

MaxTabs == 2
MaxStoreCalls == 2
Tabs == 1..MaxTabs
\* the workflows (arrays of steps) a content script sends with storeWorkflow
StoredWorkflows == {<<"click">>, <<"click", "input">>}

\* obj[key] = value on a plain object
Assign(obj, key, value) ==
  IF key \in DOMAIN obj THEN [obj EXCEPT ![key] = value] ELSE (key :> value) @@ obj

InitStore ==
  /\ HistoryIdle
  /\ IndexIdle
  /\ pc = "background"

\* lines 298-302: the call runs up to its first await, having asked the
\* storage to set workflow_<tabId>
storeWorkflowData(tabId, workflow) ==
  /\ Len(storeCalls) < MaxStoreCalls
  /\ storeCalls' = Append(storeCalls, [tabId |-> tabId, workflow |-> workflow,
                                       allWorkflows |-> EmptyObject, at |-> "set key"])
  /\ UNCHANGED <<storage, portVars, contentVars, historyVars, pc>>

\* line 302: chrome.storage.local.set({ [key]: workflow }) takes effect; the
\* call goes on to ask for all_workflows (line 305)
WorkflowKeySet(c) ==
  /\ storeCalls[c].at = "set key"
  /\ storage' = [storage EXCEPT
                   !.workflow_ = Assign(@, storeCalls[c].tabId, storeCalls[c].workflow)]
  /\ storeCalls' = [storeCalls EXCEPT ![c].at = "get all"]
  /\ UNCHANGED <<portVars, contentVars, historyVars, pc>>

\* lines 305-312: chrome.storage.local.get('all_workflows') answers with a
\* copy of what is stored; result.all_workflows || {} (line 306) gets the
\* tab's workflow (line 309) and the call asks the storage to set it
AllWorkflowsGot(c) ==
  /\ storeCalls[c].at = "get all"
  /\ LET allWorkflows == IF storage.all_workflows = <<>> THEN EmptyObject
                         ELSE storage.all_workflows[1]
     IN storeCalls' = [storeCalls EXCEPT
                         ![c].allWorkflows = Assign(allWorkflows, storeCalls[c].tabId,
                                                    storeCalls[c].workflow),
                         ![c].at = "set all"]
  /\ UNCHANGED <<storage, portVars, contentVars, historyVars, pc>>

\* line 312: chrome.storage.local.set({ all_workflows: allWorkflows }) takes
\* effect and the call returns
AllWorkflowsSet(c) ==
  /\ storeCalls[c].at = "set all"
  /\ storage' = [storage EXCEPT !.all_workflows = <<storeCalls[c].allWorkflows>>]
  /\ storeCalls' = [storeCalls EXCEPT ![c].at = "completed"]
  /\ UNCHANGED <<portVars, contentVars, historyVars, pc>>

NextStore ==
  \/ \E tabId \in Tabs, workflow \in StoredWorkflows : storeWorkflowData(tabId, workflow)
  \/ \E c \in DOMAIN storeCalls : WorkflowKeySet(c)
  \/ \E c \in DOMAIN storeCalls : AllWorkflowsGot(c)
  \/ \E c \in DOMAIN storeCalls : AllWorkflowsSet(c)

SpecStore == InitStore /\ [][NextStore]_vars

\* ------------------------------------------------------------------------
\* background/index.ts: the side panel's port
\* ------------------------------------------------------------------------
PortNames == {SidePanelConnection, "popup"}

InitPorts ==
  /\ HistoryIdle
  /\ IndexIdle
  /\ pc = "background"

\* lines 507-509: chrome.runtime.onConnect fires for a port that connects
\* under a name; a side panel's port becomes currentPort and gets its
\* onMessage and onDisconnect listeners (lines 511, 612)
OnConnect(port, name) ==
  /\ ports[port].state = "new"
  /\ ports' = [ports EXCEPT ![port] = [name |-> name, state |-> "connected"]]
  /\ currentPort' = IF name = SidePanelConnection THEN port ELSE currentPort
  /\ UNCHANGED <<posted, storeVars, contentVars, historyVars, pc>>

\* lines 612-615: a port disconnects; the listener of a side panel's port
\* sets currentPort to null
OnDisconnect(port) ==
  /\ ports[port].state = "connected"
  /\ ports' = [ports EXCEPT ![port].state = "disconnected"]
  /\ currentPort' = IF ports[port].name = SidePanelConnection THEN NoPort ELSE currentPort
  /\ UNCHANGED <<posted, storeVars, contentVars, historyVars, pc>>

\* lines 245-254: the update is posted to currentPort, if there is one
broadcastWorkflowUpdate ==
  /\ posted' = IF currentPort # NoPort THEN posted \cup {currentPort} ELSE posted
  /\ UNCHANGED <<ports, currentPort, storeVars, contentVars, historyVars, pc>>

NextPorts ==
  \/ \E port \in Ports, name \in PortNames : OnConnect(port, name)
  \/ \E port \in Ports : OnDisconnect(port)
  \/ broadcastWorkflowUpdate

SpecPorts == InitPorts /\ [][NextPorts]_vars

\* ------------------------------------------------------------------------
\* background/index.ts: the content script's event handlers
\* ------------------------------------------------------------------------
MAX_QUEUE_SIZE == 50
MaxEvents == 2
\* 'change' is handled as 'input', 'hashchange' as 'popstate'
EventTypes == {"click", "input", "scroll", "keydown", "popstate"}

indexOtherVars == <<storeVars, portVars>>

\* map.delete(key)
Delete(map, key) == [k \in DOMAIN map \ {key} |-> map[k]]

Last(seq) == seq[Len(seq)]

\* window.clearTimeout(id), window.setTimeout(callback)
clearTimeout(timers, id) == {t \in timers : t.id # id}
setTimeout(timers, id, callback) == timers \cup {[id |-> id, callback |-> callback]}

\* lines 1886-2031: the step takes the snapshot data, if any, and uses it up
\* (lines 1945-1975); consecutive scroll steps are merged (lines 1990-2004)
recordWorkflowStep(cs, action, eventData, forceDomSnapshot) ==
  LET step == [action |-> action,
               changes |-> IF forceDomSnapshot THEN ActualChanges ELSE Placeholder,
               timestamp |-> eventData.timestamp,
               elementInfo |-> IF cs.lastDomSnapshotData # NoSnapshot
                                 THEN "snapshot" ELSE "fallback"]
      history == cs.workflowHistory
  IN [cs EXCEPT
        !.lastDomSnapshotData = NoSnapshot,
        !.workflowHistory =
           IF history # <<>> /\ Last(history).action = "Scrolled" /\ action = "Scrolled"
             THEN [history EXCEPT ![Len(history)] = step]
             ELSE Append(history, step)]

\* lines 2034-2080 without the clearTimeout of line 2043
updateWorkflowStepWithChangesKeepingTimer(cs) ==
  IF cs.workflowHistory = <<>> THEN cs
  ELSE [cs EXCEPT
          !.domChangeTimeoutId = NoTimer,
          !.workflowHistory[Len(cs.workflowHistory)].changes = ActualChanges,
          !.waitingForDomChanges = FALSE]

\* lines 2034-2080: the last step of the history gets the changes detected
\* now; the pending timer is cancelled
updateWorkflowStepWithChanges(cs) ==
  IF cs.workflowHistory = <<>> THEN cs
  ELSE [cs EXCEPT
          !.timers = IF cs.domChangeTimeoutId # NoTimer
                       THEN clearTimeout(@, cs.domChangeTimeoutId) ELSE @,
          !.domChangeTimeoutId = NoTimer,
          !.workflowHistory[Len(cs.workflowHistory)].changes = ActualChanges,
          !.waitingForDomChanges = FALSE]

\* lines 2085-2103; id is what window.setTimeout returns
scheduleDomChangeDetection(cs, id) ==
  LET cancelled == IF cs.domChangeTimeoutId # NoTimer
                     THEN updateWorkflowStepWithChanges(
                            [cs EXCEPT !.timers = clearTimeout(@, cs.domChangeTimeoutId)])
                     ELSE cs
  IN [cancelled EXCEPT
        !.waitingForDomChanges = TRUE,
        !.domChangeTimeoutId = id,
        !.timers = setTimeout(@, id, "domChange")]

\* chrome.runtime.sendMessage({action: 'captureDOMSnapshot', ...}, callback)
\* of lines 2143-2172 and 2219-2241
CaptureDOMSnapshot(eventId, eventType) ==
  [kind |-> "captureDOMSnapshot", eventId |-> eventId, eventType |-> eventType,
   status |-> ""]

\* lines 2117-2121 refusing the new event when the queue is full
EnqueueDroppingNewest(queue, eventData) ==
  IF Len(queue) >= MAX_QUEUE_SIZE THEN queue ELSE Append(queue, eventData)

\* lines 2117-2121
Enqueue(queue, eventData) ==
  LET pushed == Append(queue, eventData)
  IN IF Len(pushed) > MAX_QUEUE_SIZE THEN Tail(pushed) ELSE pushed

InitContent ==
  /\ HistoryIdle
  /\ IndexIdle
  /\ pc = "content"

\* lines 2108-2244. processed: processEvent returned event data (line 111);
\* isInteractive: its target.isInteractive; significant: isSignificantKeyPress
\* (line 2203); tracks: shouldRecordScrollEvent started to track the scroll
\* (lines 2266-2283)
HandleEvent(type, processed, isInteractive, significant, tracks) ==
  LET stamp == eventCount + 1
      eventData == [type |-> type, isInteractive |-> isInteractive, timestamp |-> stamp]
      queued == [content EXCEPT !.eventQueue = Enqueue(@, eventData)]
  IN
  /\ IF ~processed
       THEN UNCHANGED <<content, channel, eventCount>>
       ELSE
         /\ eventCount' = stamp
         /\ IF type = "click" /\ isInteractive
              THEN LET completed == IF queued.waitingForDomChanges
                                      THEN updateWorkflowStepWithChanges(queued)
                                      ELSE queued
                       pending == [completed EXCEPT
                                     !.pendingClickEvents =
                                        Assign(@, stamp, [action |-> "Clicked",
                                                          eventData |-> eventData])]
                   IN /\ content' = scheduleDomChangeDetection(pending, stamp)
                      /\ channel' = channel \cup {CaptureDOMSnapshot(stamp, "click")}
            ELSE IF type = "input"
              THEN /\ content' = recordWorkflowStep(queued, "Typed", eventData, TRUE)
                   /\ UNCHANGED channel
            ELSE IF type = "scroll"
              THEN /\ content' =
                        IF queued.scrollState.isScrolling \/ tracks
                          THEN [queued EXCEPT
                                  !.timers = setTimeout(
                                     clearTimeout(@, queued.scrollState.scrollDebounceTimeout),
                                     stamp, "scrollDebounce"),
                                  !.scrollState = [isScrolling |-> TRUE,
                                                   scrollDebounceTimeout |-> stamp]]
                          ELSE queued
                   /\ UNCHANGED channel
            ELSE IF type = "keydown" /\ significant
              THEN /\ content' = [queued EXCEPT
                                    !.pendingClickEvents =
                                       Assign(@, stamp, [action |-> "Pressed",
                                                         eventData |-> eventData])]
                   /\ channel' = channel \cup {CaptureDOMSnapshot(stamp, "keydown")}
            ELSE /\ content' = queued
                 /\ UNCHANGED channel
  /\ UNCHANGED <<lastBatch, indexOtherVars, historyVars, pc>>

\* lines 2096-2100: the DOM-change timer fires
DomChangeTimeout(t) ==
  /\ t \in content.timers
  /\ t.callback = "domChange"
  /\ content' = [updateWorkflowStepWithChanges([content EXCEPT !.timers = @ \ {t}])
                   EXCEPT !.domChangeTimeoutId = NoTimer]
  /\ UNCHANGED <<channel, eventCount, lastBatch, indexOtherVars, historyVars, pc>>

\* lines 2311-2314, 2379-2381: the debounce timer fires and calls
\* finishScrollAction (lines 2387-2531), which records the scroll without
\* forceDomSnapshot (line 2498)
ScrollDebounceTimeout(t) ==
  /\ t \in content.timers
  /\ t.callback = "scrollDebounce"
  /\ LET fired == [content EXCEPT !.timers = @ \ {t}]
         eventData == [type |-> "scroll", isInteractive |-> FALSE, timestamp |-> t.id]
     IN content' =
          IF ~fired.scrollState.isScrolling THEN fired
          ELSE [recordWorkflowStep(fired, "Scrolled", eventData, FALSE)
                  EXCEPT !.scrollState = [isScrolling |-> FALSE,
                                          scrollDebounceTimeout |-> NoTimer]]
  /\ UNCHANGED <<channel, eventCount, lastBatch, indexOtherVars, historyVars, pc>>

\* lines 139-149 and 257-289: the background captures the snapshot, sends
\* domSnapshotData to the tab (line 273) and answers { status: 'captured' }
CaptureSucceeds(m) ==
  /\ m \in channel
  /\ m.kind = "captureDOMSnapshot"
  /\ channel' = (channel \ {m}) \cup
                  {[m EXCEPT !.kind = "domSnapshotData"],
                   [m EXCEPT !.kind = "response", !.status = "captured"]}
  /\ UNCHANGED <<content, eventCount, lastBatch, indexOtherVars, historyVars, pc>>

\* lines 290-294 and 151-155: captureDOMSnapshot throws, the background
\* answers { status: 'error' } and sends no domSnapshotData
CaptureFails(m) ==
  /\ m \in channel
  /\ m.kind = "captureDOMSnapshot"
  /\ channel' = (channel \ {m}) \cup {[m EXCEPT !.kind = "response", !.status = "error"]}
  /\ UNCHANGED <<content, eventCount, lastBatch, indexOtherVars, historyVars, pc>>

\* lines 2153-2171 and 2228-2240 with chrome.runtime.lastError unset: the
\* background's answer arrived, whatever its status
ResponseCallback(m) ==
  /\ m \in channel
  /\ m.kind = "response"
  /\ channel' = channel \ {m}
  /\ UNCHANGED <<content, eventCount, lastBatch, indexOtherVars, historyVars, pc>>

\* lines 2153-2166 and 2228-2237 with chrome.runtime.lastError set: the
\* request found no receiver, or the port closed before the response
\* arrived. A click is recorded if still pending; a key press is recorded
\* with forceDomSnapshot whether pending or not
SendErrorCallback(m) ==
  /\ m \in channel
  /\ m.kind \in {"captureDOMSnapshot", "response"}
  /\ channel' = channel \ {m}
  /\ LET pending == content.pendingClickEvents
         eventData == [type |-> m.eventType, isInteractive |-> FALSE,
                       timestamp |-> m.eventId]
     IN content' =
          IF m.eventType = "click"
            THEN IF m.eventId \in DOMAIN pending
                   THEN [recordWorkflowStep(content, pending[m.eventId].action,
                                            pending[m.eventId].eventData, FALSE)
                           EXCEPT !.pendingClickEvents = Delete(@, m.eventId)]
                   ELSE content
            ELSE [recordWorkflowStep(content, "Pressed", eventData, TRUE)
                    EXCEPT !.pendingClickEvents = Delete(@, m.eventId)]
  /\ UNCHANGED <<eventCount, lastBatch, indexOtherVars, historyVars, pc>>

\* lines 2825-2851: the content script receives domSnapshotData
OnDomSnapshotData(m) ==
  /\ m \in channel
  /\ m.kind = "domSnapshotData"
  /\ channel' = channel \ {m}
  /\ LET stored == [content EXCEPT !.lastDomSnapshotData = m.eventId]
         pending == stored.pendingClickEvents
     IN content' =
          IF m.eventId \in DOMAIN pending
            THEN [recordWorkflowStep(stored, pending[m.eventId].action,
                                     pending[m.eventId].eventData, FALSE)
                    EXCEPT !.pendingClickEvents = Delete(@, m.eventId)]
            ELSE stored
  /\ UNCHANGED <<eventCount, lastBatch, indexOtherVars, historyVars, pc>>

\* lines 2855-2862: the content script receives refreshWorkflow
OnRefreshWorkflow ==
  /\ content' = IF content.waitingForDomChanges
                  THEN updateWorkflowStepWithChanges(content) ELSE content
  /\ UNCHANGED <<channel, eventCount, lastBatch, indexOtherVars, historyVars, pc>>

\* lines 2623-2636, called every BATCH_UPLOAD_INTERVAL (line 2823)
UploadEvents ==
  /\ IF content.eventQueue = <<>>
       THEN UNCHANGED <<content, lastBatch>>
       ELSE /\ lastBatch' = content.eventQueue
            /\ content' = [content EXCEPT !.eventQueue = <<>>]
  /\ UNCHANGED <<channel, eventCount, indexOtherVars, historyVars, pc>>

NextContent ==
  \/ \E type \in EventTypes, processed \in BOOLEAN, isInteractive \in BOOLEAN,
        significant \in BOOLEAN, tracks \in BOOLEAN :
       /\ eventCount < MaxEvents
       /\ HandleEvent(type, processed, isInteractive, significant, tracks)
  \/ \E t \in content.timers : DomChangeTimeout(t)
  \/ \E t \in content.timers : ScrollDebounceTimeout(t)
  \/ \E m \in channel : CaptureSucceeds(m)
  \/ \E m \in channel : CaptureFails(m)
  \/ \E m \in channel : ResponseCallback(m)
  \/ \E m \in channel : SendErrorCallback(m)
  \/ \E m \in channel : OnDomSnapshotData(m)
  \/ OnRefreshWorkflow
  \/ UploadEvents

SpecContent == InitContent /\ [][NextContent]_vars

\* the browser delivers every message and answer in flight and fires every
\* pending timer; events, refreshWorkflow requests and uploads come as they may
SpecContentLive ==
  /\ SpecContent
  /\ WF_vars(\E m \in channel : CaptureSucceeds(m) \/ CaptureFails(m))
  /\ WF_vars(\E m \in channel : ResponseCallback(m) \/ SendErrorCallback(m))
  /\ WF_vars(\E m \in channel : OnDomSnapshotData(m))
  /\ WF_vars(\E t \in content.timers : DomChangeTimeout(t))
  /\ WF_vars(\E t \in content.timers : ScrollDebounceTimeout(t))

\* ------------------------------------------------------------------------
\* background/index.ts: the content script's event queue
\* ------------------------------------------------------------------------
\* enough events to fill the queue and push two of them out
MaxQueuedEvents == 52

\* events that handleEvent queues and does nothing else with (line 2819-2820)
NextQueue ==
  \/ \E processed \in BOOLEAN :
       /\ eventCount < MaxQueuedEvents
       /\ HandleEvent("popstate", processed, FALSE, FALSE, FALSE)
  \/ UploadEvents

SpecQueue == InitContent /\ [][NextQueue]_vars

\* ------------------------------------------------------------------------
\* Properties
\* ------------------------------------------------------------------------
Count(seq, x) == Cardinality({i \in 1..Len(seq) : seq[i] = x})

ModifiedOld == [i \in 1..Len(result.modified) |-> result.modified[i].oldElement]
ModifiedNew == [i \in 1..Len(result.modified) |-> result.modified[i].newElement]

\* the new nodes handed to compareNodes together with an old node that is unchanged
UnchangedCounterparts ==
  LET ks == SelectSeq([k \in 1..Len(matched) |-> k],
                      LAMBDA k : Count(result.unchanged, matched[k][1]) > 0)
  IN [i \in 1..Len(ks) |-> matched[ks[i]][2]]

\* C1: when compareDOMTrees has returned, every element node of the old tree
\* occurs exactly once across removed, the oldElement fields of modified and
\* unchanged.
C1_OldExactlyOnce ==
  Returned =>
    \A o \in OldElements :
      Count(result.removed, o) + Count(ModifiedOld, o) + Count(result.unchanged, o) = 1

\* a finished comparison that used all three old-side collections
C1_Witness ==
  /\ Returned
  /\ result.removed # <<>> /\ result.modified # <<>> /\ result.unchanged # <<>>

\* C2: when compareDOMTrees has returned, every element node of the new tree
\* is exactly one of: a member of added, the newElement of one modified entry,
\* the counterpart of one unchanged old node.
C2_NewExactlyOnce ==
  Returned =>
    \A n \in NewElements :
      Count(result.added, n) + Count(ModifiedNew, n) + Count(UnchangedCounterparts, n) = 1

\* a finished comparison with an added node, a modified pair and an unchanged pair
C2_Witness ==
  /\ Returned
  /\ result.added # <<>> /\ result.modified # <<>> /\ UnchangedCounterparts # <<>>

\* C3: comparing a tree with itself yields no added, removed or modified
\* node, and every element node exactly once in unchanged.
C3_SelfDiff ==
  (Returned /\ oldTree = newTree) =>
    /\ result.added = <<>> /\ result.removed = <<>> /\ result.modified = <<>>
    /\ \A o \in OldElements : Count(result.unchanged, o) = 1

\* the attribute maps agree key by key
SameAttributes(a, b) ==
  /\ \A i \in 1..Len(a) : HasKey(b, a[i][1]) /\ Get(b, a[i][1]) = a[i][2]
  /\ \A i \in 1..Len(b) : HasKey(a, b[i][1])

SameFacets(a, b) ==
  /\ a.tagName = b.tagName
  /\ SameAttributes(a.attributes, b.attributes)
  /\ a.isVisible = b.isVisible
  /\ a.isInteractive = b.isInteractive
  /\ (a.viewportCoordinates.has /\ b.viewportCoordinates.has
        => a.viewportCoordinates.x = b.viewportCoordinates.x
           /\ a.viewportCoordinates.y = b.viewportCoordinates.y)

\* C4: a pair accepted by the matcher is under unchanged exactly when
\* detectElementChanges returns the empty list for it and under modified,
\* with that list, exactly when the list is not empty; no modified entry has
\* an empty changes list and no unchanged node has a counterpart that
\* differs in a facet.
C4_UnchangedIffNoChanges ==
  /\ \A k \in 1..Len(matched) :
       LET o == matched[k][1]
           n == matched[k][2]
           changes == detectElementChanges(oldTree[o], newTree[n])
           entry == [oldElement |-> o, newElement |-> n, changes |-> changes]
       IN /\ (Count(result.unchanged, o) = 1) <=> (changes = <<>>)
          /\ (Count(result.modified, entry) = 1) <=> (changes # <<>>)
          /\ Count(result.unchanged, o) = 1 => SameFacets(oldTree[o], newTree[n])
  /\ \A i \in 1..Len(result.modified) : result.modified[i].changes # <<>>

\* a finished comparison with an unchanged pair and a modified pair below the roots
C4_Witness ==
  /\ Returned
  /\ \E i \in 1..Len(result.modified) : result.modified[i].oldElement # Root
  /\ \E i \in 1..Len(result.unchanged) : result.unchanged[i] # Root

\* C6: the documented end-to-end scenario yields one modified entry for
\* item 2 with one added-attribute descriptor, added = {span#new-element},
\* nothing removed, and html, body, container, item 1 and item 3 unchanged.
C6_EndToEnd ==
  (Returned /\ oldTree = createTestDOMTree(FALSE) /\ newTree = ScenarioNewTree) =>
    /\ result.modified = <<[oldElement |-> 5, newElement |-> 5,
                            changes |-> <<<<"attribute added", "data-modified", Str_true>>>>]>>
    /\ result.added = <<7>>
    /\ result.removed = <<>>
    /\ Len(result.unchanged) = 5
    /\ {result.unchanged[i] : i \in 1..Len(result.unchanged)} = {1, 2, 3, 4, 6}

\* the weight the scorer accumulates for a pair, as the exact fraction
\* <<numerator, denominator>>
AccumulatedWeight(e1, e2) ==
  IF Truthy(e1.attributes, "class") /\ Truthy(e2.attributes, "class")
    THEN LET s1 == ClassSet(Get(e1.attributes, "class"))
             s2 == ClassSet(Get(e2.attributes, "class"))
             m == IF Cardinality(s1) >= Cardinality(s2) THEN Cardinality(s1)
                                                        ELSE Cardinality(s2)
         IN <<SignalScore(e1, e2) * m + ClassWeight * Cardinality(s1 \cap s2), m>>
    ELSE <<SignalScore(e1, e2), 1>>

\* accumulated weight / 11 > 7/10
AboveThreshold(e1, e2) ==
  LET w == AccumulatedWeight(e1, e2) IN 10 * w[1] > 7 * totalWeight * w[2]

IsMatched(o, n) == \E k \in 1..Len(matched) : matched[k] = <<o, n>>

\* o and n are the only element children of a pair of matched parents
OnlyChildrenOfMatched(o, n) ==
  \E k \in 1..Len(matched) :
    /\ ElementChildren(oldTree[matched[k][1]]) = <<o>>
    /\ ElementChildren(newTree[matched[k][2]]) = <<n>>

\* C5: compareChildNodes pairs an old child with a candidate only if the
\* candidate's score is strictly greater than 0.7 (an accumulated weight of
\* 7.7 of 11 or less is no match), and a single candidate above 0.7 is paired.
C5_StrictThreshold ==
  /\ \A k \in 2..Len(matched) :
       AboveThreshold(oldTree[matched[k][1]], newTree[matched[k][2]])
  /\ Returned =>
       \A o \in OldElements, n \in NewElements :
         (OnlyChildrenOfMatched(o, n) /\ AboveThreshold(oldTree[o], newTree[n]))
           => IsMatched(o, n)

\* C7: the score of any two element nodes is at least 0 and at most 1.
C7_ScoreBounds ==
  Scored => /\ ~DoubleGT(DoubleZero, returnedScore)
            /\ ~DoubleGT(returnedScore, DoubleOne)

\* two different nodes that reach the upper bound
C7_Witness ==
  /\ Scored
  /\ returnedScore = DoubleOne
  /\ elem1 # elem2

\* C8: a node with a non-empty id and a class attribute scores exactly 1
\* against itself.
C8_SelfScoreOne ==
  (Scored /\ elem1 = elem2 /\ Truthy(elem1.attributes, "id")
     /\ HasKey(elem1.attributes, "class"))
    => returnedScore = DoubleOne

\* old is <div id="x" class="c">, new the same node with class="c d"
IsClassChange(old, new) ==
  /\ old.tagName = "div"
  /\ old.attributes = <<<<"id", Str_x>>, <<"class", Str_c>>>>
  /\ new.attributes = <<<<"id", Str_x>>, <<"class", Str_c_d>>>>
  /\ new.tagName = old.tagName /\ new.xpath = old.xpath
  /\ new.isVisible = old.isVisible /\ new.isInteractive = old.isInteractive
  /\ new.viewportCoordinates = old.viewportCoordinates

\* C9: <div id="x" class="c"> and <div id="x" class="c d">, offered to each
\* other as the two roots or as the only children of matched parents, are
\* matched: one modified entry whose only descriptor is the change of the
\* class value, and neither removed nor added.
C9_ClassChangeIsModified ==
  Returned =>
    \A o \in OldElements, n \in NewElements :
      (IsClassChange(oldTree[o], newTree[n])
         /\ ((o = Root /\ n = Root) \/ OnlyChildrenOfMatched(o, n)))
        => /\ Count(ModifiedOld, o) = 1
           /\ Count(result.modified,
                    [oldElement |-> o, newElement |-> n,
                     changes |-> <<<<"attribute changed", "class", Str_c, Str_c_d>>>>]) = 1
           /\ Count(result.removed, o) = 0
           /\ Count(result.added, n) = 0

\* the pair as only children below the roots, in a finished comparison
C9_Witness ==
  /\ Returned
  /\ \E o \in OldElements, n \in NewElements :
       /\ o # Root /\ n # Root
       /\ IsClassChange(oldTree[o], newTree[n])
       /\ OnlyChildrenOfMatched(o, n)

IsDivA(node) ==
  node.tagName = "div" /\ node.attributes = <<<<"id", Str_a>>>> /\ node.children = <<>>
IsSpanB(node) ==
  node.tagName = "span" /\ node.attributes = <<<<"id", Str_b>>>> /\ node.children = <<>>

\* C10 as stated: <div id="a"> and <span id="b"> without children are never
\* matched to each other; the old one ends in removed, the new one in added.
C10_NeverMatched ==
  Returned =>
    \A o \in OldElements, n \in NewElements :
      (IsDivA(oldTree[o]) /\ IsSpanB(newTree[n]))
        => /\ ~IsMatched(o, n)
           /\ Count(result.removed, o) = 1
           /\ Count(result.added, n) = 1

\* C10: <div id="a"> and <span id="b"> without children are never matched to
\* each other unless they are the two roots; as the only element children of
\* matched parents the old one ends in removed and the new one in added.
C10_NeverMatchedBelowRoot ==
  Returned =>
    \A o \in OldElements, n \in NewElements :
      (IsDivA(oldTree[o]) /\ IsSpanB(newTree[n]))
        => /\ ~(o = Root /\ n = Root) => ~IsMatched(o, n)
           /\ OnlyChildrenOfMatched(o, n)
                => Count(result.removed, o) = 1 /\ Count(result.added, n) = 1

\* the two nodes as only children, with a common xpath so that their score is not 0
C10_Witness ==
  /\ Returned
  /\ \E o \in OldElements, n \in NewElements :
       /\ IsDivA(oldTree[o]) /\ IsSpanB(newTree[n])
       /\ OnlyChildrenOfMatched(o, n)
       /\ oldTree[o].xpath = newTree[n].xpath
       /\ Count(result.removed, o) = 1 /\ Count(result.added, n) = 1


\* C11: compareDOMTrees hands the two roots to compareNodes without looking
\* at their score: the root pair is the first pair compared, and in the
\* returned result the old root is not removed, the new root is not added,
\* and the old root is unchanged or the oldElement of a modified entry whose
\* newElement is the new root.
C11_RootsAlwaysPaired ==
  /\ pc \in {"compare", "findRemoved", "findAdded", "done"}
       => Len(matched) >= 1 /\ matched[1] = <<Root, Root>>
  /\ Returned =>
       /\ Count(result.removed, Root) = 0
       /\ Count(result.added, Root) = 0
       /\ \/ Count(result.unchanged, Root) = 1 /\ Count(ModifiedOld, Root) = 0
          \/ /\ Count(result.unchanged, Root) = 0
             /\ Count(ModifiedOld, Root) = 1
             /\ \E i \in 1..Len(result.modified) :
                  /\ result.modified[i].oldElement = Root
                  /\ result.modified[i].newElement = Root

\* a finished comparison of two roots whose score is 0
C11_Witness ==
  /\ Returned
  /\ calculateSimilarityScore(oldTree[Root], newTree[Root]) = DoubleZero
  /\ Count(ModifiedOld, Root) = 1

\* C12: trackDOMChanges calls the provider only when delayMs milliseconds
\* have passed since it set the timer and calls it once; it calls
\* compareDOMTrees once and only with the tree the provider returned; its
\* promise is fulfilled with the result of compareDOMTrees(initialTree,
\* currentTree).
C12_FixedOrder ==
  /\ providerCalls <= 1 /\ comparatorCalls <= 1
  /\ providerCalls = 1 => clock >= delayMs
  /\ comparatorCalls = 1 =>
       /\ providerCalls = 1
       /\ getCurrentTree.ok /\ currentTree = getCurrentTree.tree
       /\ oldTree = initialTree /\ newTree = currentTree
  /\ promise.state = "fulfilled" =>
       /\ providerCalls = 1 /\ comparatorCalls = 1
       /\ promise.value = compareDOMTreesRec
  /\ getCurrentTree.ok => promise.state # "rejected"

\* a call with a delay that was fulfilled with a result that is not empty
C12_Witness ==
  /\ promise.state = "fulfilled"
  /\ delayMs > 0
  /\ initialTree # currentTree
  /\ promise.value.added # <<>> /\ promise.value.removed # <<>>

\* C13: when the provider fails, compareDOMTrees is never called, the
\* provider is not called again, no result is built or returned, and the
\* promise of trackDOMChanges is rejected with the provider's failure.
C13_ProviderFailurePropagates ==
  ~getCurrentTree.ok =>
    /\ comparatorCalls = 0
    /\ providerCalls <= 1
    /\ result = EmptyResult /\ matched = <<>>
    /\ promise.state # "fulfilled"
    /\ pc \in {"track", "wait", "provider", "failed"}
    /\ pc = "failed" <=> promise.state = "rejected"
    /\ promise.state = "rejected" =>
         promise.reason = getCurrentTree.error /\ providerCalls = 1

\* a call whose provider failed after the delay
C13_Witness ==
  /\ promise.state = "rejected"
  /\ promise.reason = "no active tab"
  /\ delayMs > 0

\* the two nodes agree in everything but their children
SameLabel(a, b) ==
  /\ a.tagName = b.tagName /\ a.xpath = b.xpath /\ a.attributes = b.attributes
  /\ a.isVisible = b.isVisible /\ a.isInteractive = b.isInteractive
  /\ a.viewportCoordinates = b.viewportCoordinates

\* C14: no old node and no new node occurs in two of the pairs handed to
\* compareNodes; and where matched parents have two old element children and
\* two new element children, all four alike and scoring above 0.7, the first
\* old child is paired with the first new child and the second with the second.
C14_OneToOne ==
  /\ \A i, j \in 1..Len(matched) :
       i # j => matched[i][1] # matched[j][1] /\ matched[i][2] # matched[j][2]
  /\ Returned =>
       \A k \in 1..Len(matched) :
         LET oldElementChildren == ElementChildren(oldTree[matched[k][1]])
             newElementChildren == ElementChildren(newTree[matched[k][2]])
         IN (/\ Len(oldElementChildren) = 2 /\ Len(newElementChildren) = 2
             /\ SameLabel(oldTree[oldElementChildren[1]], oldTree[oldElementChildren[2]])
             /\ SameLabel(newTree[newElementChildren[1]], newTree[newElementChildren[2]])
             /\ SameLabel(oldTree[oldElementChildren[1]], newTree[newElementChildren[1]])
             /\ AboveThreshold(oldTree[oldElementChildren[1]], newTree[newElementChildren[1]]))
            => /\ IsMatched(oldElementChildren[1], newElementChildren[1])
               /\ IsMatched(oldElementChildren[2], newElementChildren[2])

\* a new child was claimed by an earlier old sibling, and a later old sibling
\* that scores higher with it went without a partner
C14_Witness ==
  /\ Returned
  /\ \E k \in 2..Len(matched) :
       \E later \in OldElements :
         /\ later > matched[k][1]
         /\ \E parent \in OldElements :
              \E i, j \in 1..Len(oldTree[parent].children) :
                /\ oldTree[parent].children[i] = matched[k][1]
                /\ oldTree[parent].children[j] = later
         /\ DoubleGT(calculateSimilarityScore(oldTree[later], newTree[matched[k][2]]),
                     calculateSimilarityScore(oldTree[matched[k][1]], newTree[matched[k][2]]))
         /\ Count(result.removed, later) = 1

\* C15: every run of compareDOMTrees on a pair of trees ends with one and
\* the same result, the value that the recursion of the source yields for the
\* pair when old children and candidates are taken in document order: the
\* same added, removed and unchanged lists and the same modified entries with
\* the same change lists in the same order.
C15_Deterministic ==
  Returned => result = compareDOMTreesRec

\* a finished run in which an old child had two unclaimed candidates above the threshold
C15_Witness ==
  /\ Returned
  /\ \E k \in 2..Len(matched) :
       \E n \in NewElements :
         /\ n > matched[k][2]
         /\ \E parent \in NewElements :
              \E i, j \in 1..Len(newTree[parent].children) :
                /\ newTree[parent].children[i] = matched[k][2]
                /\ newTree[parent].children[j] = n
         /\ AboveThreshold(oldTree[matched[k][1]], newTree[n])
         /\ result.modified # <<>>

\* C16: no step of compareDOMTrees, the scorer and the detector it calls
\* included, changes a node of either input tree: tagName, attributes,
\* children, xpath, flags and geometry of every node stay as they were.
C16_InputsUnchanged ==
  [][oldTree' = oldTree /\ newTree' = newTree]_vars

\* a finished comparison of trees with text children, after the scorer and
\* the detector were applied to their nodes
C16_Witness ==
  /\ Returned
  /\ \E i \in 1..Len(oldTree[Root].children) : oldTree[Root].children[i] = TextChild
  /\ \E i \in 1..Len(newTree[Root].children) : newTree[Root].children[i] = TextChild
  /\ result.modified # <<>>

\* C17: of two compareDOMTrees calls whose steps interleave in any way, each
\* has, whenever it has returned and however far the other call has come
\* since, the result that compareDOMTrees yields for its own two trees; and
\* at every moment the exclusion sets of the running call hold the nodes this
\* call has classified and no others.
C17_CallsIndependent ==
  /\ Returned => result = compareDOMTreesRec
  /\ processedOldElements =
       {matched[k][1] : k \in 1..Len(matched)}
         \cup {result.removed[i] : i \in 1..Len(result.removed)}
  /\ processedNewElements =
       {matched[k][2] : k \in 1..Len(matched)}
         \cup {result.added[i] : i \in 1..Len(result.added)}

\* the first call has returned while the second, which shares its old tree,
\* waits in the middle of its matching
C17_Witness ==
  /\ Returned /\ running = 1
  /\ suspended.pc = "compare" /\ Len(suspended.matched) >= 2
  /\ suspended.oldTree = oldTree /\ suspended.newTree # newTree
  /\ result.modified # <<>>


\* C18: every compareDOMTrees call on two finite trees returns, whichever of
\* id, class and viewportCoordinates its nodes lack.
C18_Terminates == <>Returned

\* a returned call that matched a node with coordinates to one without, in
\* trees whose roots have neither id nor class
C18_Witness ==
  /\ Returned
  /\ ~HasKey(oldTree[Root].attributes, "id") /\ ~HasKey(oldTree[Root].attributes, "class")
  /\ \E k \in 2..Len(matched) :
       /\ oldTree[matched[k][1]].viewportCoordinates.has
       /\ ~newTree[matched[k][2]].viewportCoordinates.has

AttributeKinds == {"attribute removed", "attribute changed", "attribute added"}

\* where a key stands in an attribute map
PositionOf(attrs, key) == CHOOSE i \in 1..Len(attrs) : attrs[i][1] = key

\* the place of a descriptor's facet in the order tag, removed, changed,
\* added, visibility, interactivity, position
FacetRank(d) ==
  CASE d[1] = "tag" -> 1
    [] d[1] = "attribute removed" -> 2
    [] d[1] = "attribute changed" -> 3
    [] d[1] = "attribute added" -> 4
    [] d[1] = "visibility" -> 5
    [] d[1] = "interactivity" -> 6
    [] d[1] = "position" -> 7

\* the place of a descriptor's facet when removed and changed are one facet
LoopRank(d) ==
  CASE d[1] = "tag" -> 1
    [] d[1] \in {"attribute removed", "attribute changed"} -> 2
    [] d[1] = "attribute added" -> 3
    [] d[1] = "visibility" -> 4
    [] d[1] = "interactivity" -> 5
    [] d[1] = "position" -> 6

\* C19 as stated: in the list detectElementChanges returns, no descriptor
\* of a later facet precedes one of an earlier facet, the facets being tag,
\* attribute removed, attribute changed, attribute added, visibility,
\* interactivity, position.
C19_FacetOrder ==
  Detected =>
    \A i, j \in 1..Len(returnedChanges) :
      i < j => FacetRank(returnedChanges[i]) <= FacetRank(returnedChanges[j])

\* C19: the list detectElementChanges returns has the tag change first, then
\* the removed and changed descriptors together, ordered as their keys are in
\* the old node's attributes, then the added descriptors, ordered as their
\* keys are in the new node's attributes, then visibility, interactivity
\* and position.
C19_FacetOrderByAttributeLoop ==
  Detected =>
    \A i, j \in 1..Len(returnedChanges) :
      i < j =>
        LET d == returnedChanges[i]
            e == returnedChanges[j]
        IN /\ LoopRank(d) <= LoopRank(e)
           /\ (LoopRank(d) = 2 /\ LoopRank(e) = 2)
                => PositionOf(elem1.attributes, d[2]) < PositionOf(elem1.attributes, e[2])
           /\ (LoopRank(d) = 3 /\ LoopRank(e) = 3)
                => PositionOf(elem2.attributes, d[2]) < PositionOf(elem2.attributes, e[2])

\* a changed descriptor stands before a removed one, between the tag change
\* and the position change
C19_Witness ==
  /\ Detected
  /\ Len(returnedChanges) = 4
  /\ returnedChanges[1][1] = "tag"
  /\ returnedChanges[2][1] = "attribute changed"
  /\ returnedChanges[3][1] = "attribute removed"
  /\ returnedChanges[4][1] = "position"

\* the keys of an attribute map
KeysOf(attrs) == {attrs[i][1] : i \in 1..Len(attrs)}

\* the two maps differ on the key
DiffersOn(oldAttrs, newAttrs, key) ==
  \/ HasKey(oldAttrs, key) # HasKey(newAttrs, key)
  \/ HasKey(oldAttrs, key) /\ HasKey(newAttrs, key)
       /\ Get(oldAttrs, key) # Get(newAttrs, key)

\* the descriptor due for a key on which the two maps differ
DescriptorDue(oldAttrs, newAttrs, key) ==
  IF ~HasKey(newAttrs, key) THEN <<"attribute removed", key, Get(oldAttrs, key)>>
  ELSE IF ~HasKey(oldAttrs, key) THEN <<"attribute added", key, Get(newAttrs, key)>>
  ELSE <<"attribute changed", key, Get(oldAttrs, key), Get(newAttrs, key)>>

\* C20: the list detectElementChanges returns holds, for every attribute
\* key on which the two maps differ, exactly one attribute descriptor
\* (removed for a key only in old, changed for a key in both, added for a key
\* only in new) and none for any other key, so there are as many attribute
\* descriptors as differing keys.
C20_OnePerDifferingKey ==
  Detected =>
    LET attributeChanges == SelectSeq(returnedChanges, LAMBDA d : d[1] \in AttributeKinds)
        keys == KeysOf(elem1.attributes) \cup KeysOf(elem2.attributes)
        differing == {k \in keys : DiffersOn(elem1.attributes, elem2.attributes, k)}
    IN /\ \A k \in differing :
            Count(attributeChanges,
                  DescriptorDue(elem1.attributes, elem2.attributes, k)) = 1
       /\ Len(attributeChanges) = Cardinality(differing)

\* C21: the list detectElementChanges returns holds a position descriptor,
\* one and carrying the two centers, exactly when both nodes have viewport
\* coordinates and the centers differ in x or in y; when a node has none the
\* call still returns, without a position descriptor.
C21_PositionChange ==
  Detected =>
    LET positions == SelectSeq(returnedChanges, LAMBDA d : d[1] = "position")
        old == elem1.viewportCoordinates
        new == elem2.viewportCoordinates
    IN IF old.has /\ new.has /\ (old.x # new.x \/ old.y # new.y)
         THEN positions = <<<<"position", old, new>>>>
         ELSE positions = <<>>

\* a position descriptor for two centers that differ in y only
C21_Witness ==
  /\ Detected
  /\ elem1.viewportCoordinates.has /\ elem2.viewportCoordinates.has
  /\ elem1.viewportCoordinates.x = elem2.viewportCoordinates.x
  /\ elem1.viewportCoordinates.y # elem2.viewportCoordinates.y
  /\ \E i \in 1..Len(returnedChanges) : returnedChanges[i][1] = "position"

\* the lines of a text: its pieces between line feeds
RECURSIVE Lines(_)
Lines(text) ==
  LET feeds == {i \in 1..Len(text) : text[i] = LineFeed}
  IN IF feeds = {} THEN <<text>>
     ELSE <<SubSeq(text, 1, Min(feeds) - 1)>>
            \o Lines(SubSeq(text, Min(feeds) + 1, Len(text)))

\* the lines under a section header, up to the next empty line
SectionOf(lines, label) ==
  LET at == {i \in 1..Len(lines) : lines[i] = <<label>>}
  IN IF at = {} THEN <<>>
     ELSE LET first == Min(at) + 1
              stops == {i \in first..Len(lines) : lines[i] = <<>>}
              last == IF stops = {} THEN Len(lines) ELSE Min(stops) - 1
          IN SubSeq(lines, first, last)

\* how many lines the entries before entry i take: one each, and one per
\* change descriptor
RECURSIVE EntryOffset(_, _)
EntryOffset(modified, i) ==
  IF i = 1 THEN 0
  ELSE EntryOffset(modified, i - 1) + 1 + Len(modified[i - 1].changes)

\* C22: the report's second to fifth lines give the sizes of added, removed,
\* modified and unchanged; the added and the removed section hold one
\* numbered line per node; the modified section holds, per entry, its
\* numbered line and then one indented line per change descriptor, in order.
C22_ReportStructure ==
  Formatted =>
    LET lines == Lines(report)
        addedLines == SectionOf(lines, "----- added elements -----")
        removedLines == SectionOf(lines, "----- removed elements -----")
        modifiedLines == SectionOf(lines, "----- modified elements -----")
        entries == result.modified
    IN /\ Len(lines) >= 5
       /\ lines[2] = CountLine("added elements: ", Len(result.added))
       /\ lines[3] = CountLine("removed elements: ", Len(result.removed))
       /\ lines[4] = CountLine("modified elements: ", Len(result.modified))
       /\ lines[5] = CountLine("unchanged elements: ", Len(result.unchanged))
       /\ addedLines = ElementLines(result.added)
       /\ removedLines = ElementLines(result.removed)
       /\ Len(modifiedLines) = EntryOffset(entries, Len(entries) + 1)
       /\ \A i \in 1..Len(entries) :
            /\ modifiedLines[EntryOffset(entries, i) + 1]
                 = NumberedLine(i, entries[i].oldElement)
            /\ \A j \in 1..Len(entries[i].changes) :
                 modifiedLines[EntryOffset(entries, i) + 1 + j]
                   = Indent \o entries[i].changes[j]

\* the value the formula of C23 gives for a pair, computed in doubles as the
\* source computes its own: the class signal is left out only when a side
\* has no class attribute, and the token sets are those of split(/\s+/)
FormulaScore(a, b) ==
  LET weight ==
        (IF a.tagName = b.tagName THEN 3 ELSE 0)
        + (IF a.xpath = b.xpath THEN 2 ELSE 0)
        + (IF HasKey(a.attributes, "id") /\ HasKey(b.attributes, "id")
              /\ Get(a.attributes, "id") # <<>> /\ Get(b.attributes, "id") # <<>>
              /\ Get(a.attributes, "id") = Get(b.attributes, "id")
             THEN 4 ELSE 0)
  IN IF HasKey(a.attributes, "class") /\ HasKey(b.attributes, "class")
       THEN LET tokensA == ClassSet(Get(a.attributes, "class"))
                tokensB == ClassSet(Get(b.attributes, "class"))
                larger == Max({Cardinality(tokensA), Cardinality(tokensB)})
            IN DoubleDiv(DoubleAddInt(weight,
                 DoubleTimes2(IntDiv(Cardinality(tokensA \cap tokensB), larger))), 11)
       ELSE DoubleDiv(IntAsDouble(weight), 11)

\* C23: calculateSimilarityScore(a, b) is (3*[same tag] + 2*[same xpath]
\* + 4*[both ids non-empty and equal] + 2*c) / 11, where c is 0 when a side
\* has no class attribute and otherwise the share of common class tokens in
\* the larger token set.
C23_ScoreFormula == Scored => returnedScore = FormulaScore(elem1, elem2)

\* C24: the score of a pair does not depend on the order of its arguments:
\* calculateSimilarityScore(a, b) = calculateSimilarityScore(b, a).
C24_Symmetric == Scored => returnedScore = calculateSimilarityScore(elem2, elem1)

\* two different nodes with class token sets of different sizes that overlap
C24_Witness ==
  /\ Scored
  /\ elem1.tagName # elem2.tagName
  /\ Truthy(elem1.attributes, "class") /\ Truthy(elem2.attributes, "class")
  /\ LET s1 == ClassSet(Get(elem1.attributes, "class"))
         s2 == ClassSet(Get(elem2.attributes, "class"))
     IN Cardinality(s1) < Cardinality(s2) /\ s1 \cap s2 # {}
  /\ Truthy(elem1.attributes, "id") /\ ~HasKey(elem2.attributes, "id")
  /\ returnedScore # DoubleZero

\* the members of a sequence
Members(seq) == {seq[i] : i \in 1..Len(seq)}

OldChildrenOf(o) == Members(ElementChildren(oldTree[o]))
NewChildrenOf(n) == Members(ElementChildren(newTree[n]))

\* C25: the children of every matched pair are aligned, whether the pair is
\* under unchanged or under modified: no old child is left as removed next
\* to an added new child that scores above the threshold against it, and a
\* matched pair of children is unchanged exactly when the comparator finds
\* the two nodes identical, whatever their parents were classified as.
C25_AlignedEitherWay ==
  Returned =>
    \A k \in 1..Len(matched) :
      \A c \in OldChildrenOf(matched[k][1]) : \A m \in NewChildrenOf(matched[k][2]) :
        /\ (Count(result.removed, c) > 0 /\ Count(result.added, m) > 0)
             => ~DoubleGT(calculateSimilarityScore(oldTree[c], newTree[m]), MatchThreshold)
        /\ IsMatched(c, m)
             => (Count(result.unchanged, c) > 0
                   <=> compareHistoryElementAndDomElement(oldTree[c], newTree[m]))

\* an unchanged pair with a modified pair of children, which in turn has an
\* unchanged pair of children
C25_Witness ==
  /\ Returned
  /\ \E i, j, k \in 1..Len(matched) :
       /\ Count(result.unchanged, matched[i][1]) > 0
       /\ matched[j][1] \in OldChildrenOf(matched[i][1])
       /\ matched[j][2] \in NewChildrenOf(matched[i][2])
       /\ Count(ModifiedOld, matched[j][1]) > 0
       /\ matched[k][1] \in OldChildrenOf(matched[j][1])
       /\ matched[k][2] \in NewChildrenOf(matched[j][2])
       /\ Count(result.unchanged, matched[k][1]) > 0

\* the element nodes of the subtree of a tree under a node, the node included
RECURSIVE Subtree(_, _)
Subtree(tree, node) ==
  {node} \cup UNION {Subtree(tree, ch) : ch \in Members(ElementChildren(tree[node]))}

MatchedOld == {matched[k][1] : k \in 1..Len(matched)}
MatchedNew == {matched[k][2] : k \in 1..Len(matched)}

\* C26: an old node that was not paired at its own level is in removed with
\* every element node of its subtree, and none of them is paired anywhere;
\* likewise an unpaired new node is in added with its whole subtree.
C26_WholeSubtreeLeftOver ==
  Returned =>
    /\ \A o \in OldElements \ MatchedOld :
         \A d \in Subtree(oldTree, o) :
           Count(result.removed, d) = 1 /\ d \notin MatchedOld
    /\ \A n \in NewElements \ MatchedNew :
         \A d \in Subtree(newTree, n) :
           Count(result.added, d) = 1 /\ d \notin MatchedNew

\* an unpaired old child with a child of its own that has an identical
\* counterpart one level up in the new tree, and an unpaired new child with
\* a child of its own
C26_Witness ==
  /\ Returned
  /\ \E o \in OldElements \ MatchedOld : \E d \in Subtree(oldTree, o) \ {o} :
       \E n \in NewChildrenOf(Root) :
         [newTree[n] EXCEPT !.children = <<>>] = [oldTree[d] EXCEPT !.children = <<>>]
  /\ \E n \in NewElements \ MatchedNew : Subtree(newTree, n) # {n}

\* the node whose children hold the given node (not the root)
ParentOf(tree, node) ==
  CHOOSE p \in 1..Len(tree) : node \in Members(ElementChildren(tree[p]))

RECURSIVE Depth(_, _)
Depth(tree, node) == IF node = Root THEN 0 ELSE 1 + Depth(tree, ParentOf(tree, node))

\* C27: every pair handed to compareNodes after the roots consists of
\* children of a pair handed to it before, so the two nodes are at the same
\* depth; a node whose counterpart sits under another parent is not paired.
C27_ParentsMatched ==
  \A k \in 2..Len(matched) :
    /\ \E j \in 1..(k - 1) :
         /\ matched[j][1] = ParentOf(oldTree, matched[k][1])
         /\ matched[j][2] = ParentOf(newTree, matched[k][2])
    /\ Depth(oldTree, matched[k][1]) = Depth(newTree, matched[k][2])

\* a finished run with a matched pair below the roots, in which a node that
\* moved from under that pair to under the root is removed and added
C27_Witness ==
  /\ Returned
  /\ Len(matched) >= 2
  /\ \E o \in OldElements, n \in NewElements :
       /\ SameLabel(oldTree[o], newTree[n])
       /\ Depth(oldTree, o) = 2 /\ Depth(newTree, n) = 1
       /\ \E m \in NewChildrenOf(Root) : IsMatched(ParentOf(oldTree, o), m)
       /\ Count(result.removed, o) = 1 /\ Count(result.added, n) = 1

\* C28: a text child is in none of the four lists of the result, in no pair
\* handed to compareNodes and in neither exclusion set; and a call on trees
\* with text children returns the same result as a call on the same trees
\* without them.
C28_TextInvisible ==
  /\ TextChild \notin
       Members(result.added) \cup Members(result.removed) \cup Members(result.unchanged)
         \cup Members(ModifiedOld) \cup Members(ModifiedNew)
         \cup MatchedOld \cup MatchedNew
         \cup processedOldElements \cup processedNewElements
  /\ (/\ Returned /\ suspended.pc = "done"
      /\ WithoutText(oldTree) = WithoutText(suspended.oldTree)
      /\ WithoutText(newTree) = WithoutText(suspended.newTree))
       => result = suspended.result

\* both calls have returned; the first had text children around the element
\* children of every old node and in front of those of every new node, and
\* its result has modified, removed and added nodes
C28_Witness ==
  /\ Returned /\ suspended.pc = "done" /\ running = 1
  /\ \A i \in OldElements : oldTree[i].children = Around(ElementChildren(oldTree[i]))
  /\ \A i \in NewElements :
       newTree[i].children = <<TextChild>> \o ElementChildren(newTree[i])
  /\ Len(oldTree) = 3
  /\ result.modified # <<>> /\ result.removed # <<>> /\ result.added # <<>>
  /\ result = suspended.result

\* the new nodes in the pairs logged before the k-th
ClaimedBefore(k) == {matched[j][2] : j \in 1..(k - 1)}

PositionIn(seq, x) == CHOOSE i \in 1..Len(seq) : seq[i] = x

\* C29: the new node an old child is paired with scores strictly higher
\* against it than every unclaimed sibling in front of it, and no unclaimed
\* sibling behind it scores higher: of tied candidates the first is taken.
C29_FirstOfTies ==
  \A k \in 2..Len(matched) :
    LET o == matched[k][1]
        n == matched[k][2]
        siblings == ElementChildren(newTree[ParentOf(newTree, n)])
        Score(m) == calculateSimilarityScore(oldTree[o], newTree[m])
    IN \A i \in 1..Len(siblings) :
         (siblings[i] \notin ClaimedBefore(k) /\ siblings[i] # n)
           => IF i < PositionIn(siblings, n)
                THEN DoubleGT(Score(n), Score(siblings[i]))
                ELSE ~DoubleGT(Score(siblings[i]), Score(n))

\* an old child was paired with the first of two unclaimed siblings of
\* equal score
C29_Witness ==
  /\ Returned
  /\ \E k \in 2..Len(matched) :
       LET o == matched[k][1]
           n == matched[k][2]
           siblings == ElementChildren(newTree[ParentOf(newTree, n)])
       IN \E i \in 1..Len(siblings) :
            /\ siblings[i] \notin ClaimedBefore(k)
            /\ i > PositionIn(siblings, n)
            /\ calculateSimilarityScore(oldTree[o], newTree[siblings[i]])
                 = calculateSimilarityScore(oldTree[o], newTree[n])

\* the element nodes under the given nodes with every node behind its
\* descendants
RECURSIVE Postorder(_, _)
Postorder(tree, nodes) ==
  IF nodes = <<>>
    THEN <<>>
    ELSE Postorder(tree, ElementChildren(tree[Head(nodes)])) \o <<Head(nodes)>>
           \o Postorder(tree, Tail(nodes))

\* the result of compareDOMTrees(oldTree, newTree) with both sweeps in post-order
compareDOMTreesPostorder ==
  LET st == compareNodesRec(Root, Root, [processedOld |-> {}, processedNew |-> {},
                                         result |-> EmptyResult])
      afterRemoved == findRemovedElementsRec(Postorder(oldTree, <<Root>>), st.processedOld,
                                             st.result)
  IN findAddedElementsRec(Postorder(newTree, <<Root>>), st.processedNew, afterRemoved)

\* C30: with post-order sweeps in place of the pre-order sweeps, removed and
\* added have the same members, each once, and modified and unchanged are
\* the same lists.
C30_SweepOrderIrrelevant ==
  Returned =>
    LET post == compareDOMTreesPostorder
    IN /\ Members(post.removed) = Members(result.removed)
       /\ Len(post.removed) = Len(result.removed)
       /\ Members(post.added) = Members(result.added)
       /\ Len(post.added) = Len(result.added)
       /\ post.modified = result.modified
       /\ post.unchanged = result.unchanged

\* a finished run whose removed and added lists both come out in another
\* order under post-order sweeps
C30_Witness ==
  /\ Returned
  /\ compareDOMTreesPostorder.removed # result.removed
  /\ compareDOMTreesPostorder.added # result.added

\* the first capture gave a tree and the second did not
SecondCaptureFails ==
  getCurrentDOMTree(pages[1]) # NoTree /\ getCurrentDOMTree(pages[2]) = NoTree

\* C31: when the second capture of trackRealTimeDOMChanges fails,
\* compareDOMTrees is never called, no report is formatted, and the call
\* does not end as if it had succeeded.
C31_SecondCaptureFailurePropagates ==
  SecondCaptureFails =>
    /\ comparatorCalls = 0
    /\ report = <<>>
    /\ realTimePromise.state # "fulfilled"

\* C32: when the first capture of trackRealTimeDOMChanges fails, the call
\* returns at once: no timer is awaited, getCurrentDOMTree is not called a
\* second time, compareDOMTrees and formatDOMDiffResult are not called.
C32_InitialCaptureFailureReturns ==
  getCurrentDOMTree(pages[1]) = NoTree =>
    /\ providerCalls <= 1
    /\ comparatorCalls = 0
    /\ clock = 0
    /\ report = <<>> /\ result = EmptyResult
    /\ promise = Pending
    /\ pc \in {"realTime", "initial", "returned"}
    /\ realTimePromise.state # "rejected"
    /\ pc = "returned" <=> realTimePromise = [state |-> "fulfilled", value |-> Undefined]

\* a call with a delay that returned after a first capture that threw
C32_Witness ==
  /\ pc = "returned"
  /\ pages[1].outcome = "throws" /\ pages[2].outcome = "state"
  /\ delayMs > 0
  /\ providerCalls = 1

\* lines 334-350 read this record: result.all_workflows || {}
AllWorkflows ==
  IF storage.all_workflows = <<>> THEN EmptyObject ELSE storage.all_workflows[1]

AllStoreCallsCompleted ==
  /\ storeCalls # <<>>
  /\ \A c \in DOMAIN storeCalls : storeCalls[c].at = "completed"

\* C33: once every storeWorkflowData call made has completed, all_workflows
\* has, for every tab with a stored workflow_<tabId>, that same workflow
C33_NoStoredWorkflowLost ==
  AllStoreCallsCompleted =>
    \A tabId \in DOMAIN storage.workflow_ :
      /\ tabId \in DOMAIN AllWorkflows
      /\ AllWorkflows[tabId] = storage.workflow_[tabId]

ConnectedSidePanels ==
  {port \in Ports : ports[port] = [name |-> SidePanelConnection, state |-> "connected"]}

\* C39: while a side panel's port is connected, currentPort is a connected
\* side-panel port; currentPort is null only when none is connected
C39_CurrentPortConnected ==
  /\ ConnectedSidePanels # {} => currentPort \in ConnectedSidePanels
  /\ currentPort = NoPort => ConnectedSidePanels = {}

EventIds == 1..MaxEvents

PendingClick(eventId) ==
  /\ eventId \in DOMAIN content.pendingClickEvents
  /\ content.pendingClickEvents[eventId].action = "Clicked"

\* the steps of the history recorded for the event
StepsOf(eventId) ==
  {i \in DOMAIN content.workflowHistory : content.workflowHistory[i].timestamp = eventId}

\* C34: every interactive click put into pendingClickEvents eventually has
\* its workflow step recorded, and no entry stays in pendingClickEvents forever
C34_EveryClickRecorded ==
  \A eventId \in EventIds :
    /\ PendingClick(eventId) ~> (StepsOf(eventId) # {})
    /\ (eventId \in DOMAIN content.pendingClickEvents)
         ~> (eventId \notin DOMAIN content.pendingClickEvents)

\* C35: an event id put into pendingClickEvents gets at most one step
\* recorded, and it has left pendingClickEvents once its step is recorded
C35_AtMostOneStepPerEvent ==
  \A eventId \in EventIds :
    /\ Cardinality(StepsOf(eventId)) <= 1
    /\ StepsOf(eventId) # {} => eventId \notin DOMAIN content.pendingClickEvents


DomChangeTimers == {t \in content.timers : t.callback = "domChange"}

\* C36: between handlers, waitingForDomChanges is true exactly when
\* domChangeTimeoutId is non-null, which is exactly when a DOM-change timer
\* is pending, that timer being the only one
C36_WaitingIffTimerPending ==
  /\ content.waitingForDomChanges <=> content.domChangeTimeoutId # NoTimer
  /\ content.domChangeTimeoutId # NoTimer <=> DomChangeTimers # {}
  /\ Cardinality(DomChangeTimers) <= 1
  /\ \A t \in DomChangeTimers : t.id = content.domChangeTimeoutId

\* a second interactive click arrived while the timer of the first was pending
C36_Witness ==
  /\ content.waitingForDomChanges
  /\ content.domChangeTimeoutId = 2
  /\ 1 \in DOMAIN content.pendingClickEvents
  /\ content.pendingClickEvents[1].action = "Clicked"
  /\ DomChangeTimers # {}

MaxSteps == MaxEvents + 1

\* C37: every step of the history that holds the placeholder eventually
\* holds the detected changes instead
C37_PlaceholderReplaced ==
  \A i \in 1..MaxSteps :
    (i \in DOMAIN content.workflowHistory /\ content.workflowHistory[i].changes = Placeholder)
      ~> (i \in DOMAIN content.workflowHistory /\ content.workflowHistory[i].changes # Placeholder)

Timestamps(queue) == [i \in DOMAIN queue |-> queue[i].timestamp]

\* C38: eventQueue never holds more than MAX_QUEUE_SIZE events; an event
\* handled with a full queue pushes the oldest out and is itself queued last;
\* a batch is sent only from a non-empty queue, holds the whole queue, and
\* leaves the queue empty
C38_QueueBounded ==
  /\ [](Len(content.eventQueue) <= MAX_QUEUE_SIZE)
  /\ [][/\ eventCount' # eventCount =>
             /\ Last(content'.eventQueue).timestamp = eventCount'
             /\ content'.eventQueue =
                  Append(IF Len(content.eventQueue) = MAX_QUEUE_SIZE
                           THEN Tail(content.eventQueue) ELSE content.eventQueue,
                         Last(content'.eventQueue))
        /\ lastBatch' # lastBatch =>
             /\ content.eventQueue # <<>>
             /\ lastBatch' = content.eventQueue
             /\ content'.eventQueue = <<>>
        /\ (eventCount' = eventCount /\ lastBatch' = lastBatch) =>
             content'.eventQueue = content.eventQueue]_vars

\* the queue is full, has lost its oldest event, and a batch was sent before
C38_Witness ==
  /\ Len(content.eventQueue) = MAX_QUEUE_SIZE
  /\ Timestamps(content.eventQueue)[1] = 3
  /\ Last(content.eventQueue).timestamp = MAX_QUEUE_SIZE + 2
  /\ Timestamps(lastBatch) = <<1>>
====
